---- MODULE Spec2Model ----
(***************************************************************************)
(* A model of the DAX engine of snowflow (backend/dax_engine): the regex   *)
(* lexer, the recursive-descent parser and the schema context resolver.    *)
(* Source text is a sequence of one-character strings; offsets are 0-based *)
(* as in the Python code.                                                  *)
(***************************************************************************)
EXTENDS Integers, Sequences, FiniteSets, TLC

(***************************************************************************)
(* Character classes used by the token regexes.                            *)
(***************************************************************************)
Digits == {"0", "1", "2", "3", "4", "5", "6", "7", "8", "9"}

LowerLetters == <<"a", "b", "c", "d", "e", "f", "g", "h", "i", "j", "k", "l", "m",
                  "n", "o", "p", "q", "r", "s", "t", "u", "v", "w", "x", "y", "z">>

UpperLetters == <<"A", "B", "C", "D", "E", "F", "G", "H", "I", "J", "K", "L", "M",
                  "N", "O", "P", "Q", "R", "S", "T", "U", "V", "W", "X", "Y", "Z">>

Range(f) == {f[i] : i \in DOMAIN f}

IdentStart == Range(LowerLetters) \cup Range(UpperLetters) \cup {"_"}

IdentPart == IdentStart \cup Digits

\* str.upper() on one character
UpperChar(c) ==
    IF c \in Range(LowerLetters)
    THEN UpperLetters[CHOOSE i \in DOMAIN LowerLetters : LowerLetters[i] = c]
    ELSE c

\* str.lower() on one character
LowerChar(c) ==
    IF c \in Range(UpperLetters)
    THEN LowerLetters[CHOOSE i \in DOMAIN UpperLetters : UpperLetters[i] = c]
    ELSE c

RECURSIVE Join(_)
\* the Python string made of the characters of s
Join(s) == IF s = <<>> THEN "" ELSE Head(s) \o Join(Tail(s))

Upper(s) == [i \in DOMAIN s |-> UpperChar(s[i])]

Lower(s) == [i \in DOMAIN s |-> LowerChar(s[i])]

(***************************************************************************)
(* lexer.py: DAX_KEYWORDS                                                  *)
(***************************************************************************)
DAX_KEYWORDS == {
    "SUM", "SUMX", "AVERAGE", "AVERAGEX", "COUNT", "COUNTX", "COUNTA",
    "COUNTAX", "COUNTROWS", "COUNTBLANK", "MIN", "MINX", "MAX", "MAXX",
    "DISTINCTCOUNT", "DISTINCTCOUNTNOBLANK", "PRODUCT", "PRODUCTX",
    "CALCULATE", "CALCULATETABLE", "FILTER", "ALL", "ALLEXCEPT",
    "ALLSELECTED", "ALLNOBLANKROW", "VALUES", "DISTINCT", "KEEPFILTERS",
    "REMOVEFILTERS", "EARLIER", "EARLIEST", "HASONEVALUE", "HASONEFILTER",
    "ISFILTERED", "ISCROSSFILTERED", "SELECTEDVALUE",
    "DATEADD", "DATEDIFF", "SAMEPERIODLASTYEAR", "PREVIOUSYEAR",
    "PREVIOUSQUARTER", "PREVIOUSMONTH", "PREVIOUSDAY", "NEXTYEAR",
    "NEXTQUARTER", "NEXTMONTH", "NEXTDAY", "PARALLELPERIOD",
    "STARTOFYEAR", "STARTOFQUARTER", "STARTOFMONTH", "ENDOFYEAR",
    "ENDOFQUARTER", "ENDOFMONTH", "DATESYTD", "DATESMTD", "DATESQTD",
    "TOTALYTD", "TOTALMTD", "TOTALQTD", "DATESBETWEEN", "DATESINPERIOD",
    "FIRSTDATE", "LASTDATE", "OPENINGBALANCEYEAR", "OPENINGBALANCEQUARTER",
    "OPENINGBALANCEMONTH", "CLOSINGBALANCEYEAR", "CLOSINGBALANCEQUARTER",
    "CLOSINGBALANCEMONTH",
    "IF", "IFERROR", "IFNA", "SWITCH", "AND", "OR", "NOT", "TRUE", "FALSE",
    "ISBLANK", "ISERROR", "ISLOGICAL", "ISNUMBER", "ISTEXT", "ISNONTEXT",
    "COALESCE",
    "CONCATENATE", "CONCATENATEX", "FORMAT", "LEFT", "RIGHT", "MID",
    "LEN", "UPPER", "LOWER", "TRIM", "SUBSTITUTE", "REPLACE", "SEARCH",
    "FIND", "EXACT", "REPT", "UNICODE", "UNICHAR", "VALUE",
    "DIVIDE", "ABS", "ROUND", "ROUNDUP", "ROUNDDOWN", "MROUND", "INT",
    "MOD", "POWER", "SQRT", "LOG", "LOG10", "LN", "EXP", "SIGN", "CEILING",
    "FLOOR", "RAND", "RANDBETWEEN", "PI", "EVEN", "ODD", "FACT", "GCD",
    "LCM", "QUOTIENT", "TRUNC",
    "SUMMARIZE", "SUMMARIZECOLUMNS", "ADDCOLUMNS", "SELECTCOLUMNS",
    "TOPN", "SAMPLE", "GENERATE", "GENERATEALL", "CROSSJOIN",
    "NATURALINNERJOIN", "NATURALLEFTOUTERJOIN", "UNION", "INTERSECT",
    "EXCEPT", "DATATABLE", "ROW", "GENERATESERIES", "CALENDAR",
    "CALENDARAUTO", "TREATAS",
    "RELATED", "RELATEDTABLE", "USERELATIONSHIP", "CROSSFILTER",
    "BLANK", "ERROR", "VAR", "RETURN", "EVALUATE", "DEFINE", "MEASURE",
    "COLUMN", "TABLE", "ORDER", "BY", "ASC", "DESC", "START", "AT" }

(***************************************************************************)
(* Regex matching.  Each Match operator is pattern.match(source, position):*)
(* it returns the end offset of the match that starts at offset i, or -1   *)
(* when the pattern does not match there.                                  *)
(***************************************************************************)
NoMatch == -1

\* the character at 0-based offset i
Ch(s, i) == s[i + 1]

RECURSIVE SkipIn(_, _, _)
\* end of the longest run of characters of cls starting at i
SkipIn(s, i, cls) ==
    IF i < Len(s) /\ Ch(s, i) \in cls THEN SkipIn(s, i + 1, cls) ELSE i

RECURSIVE SkipNotIn(_, _, _)
\* end of the longest run of characters outside cls starting at i
SkipNotIn(s, i, cls) ==
    IF i < Len(s) /\ Ch(s, i) \notin cls THEN SkipNotIn(s, i + 1, cls) ELSE i

\* a literal pattern such as '<>' or '\('
MatchLiteral(s, i, lit) ==
    IF i + Len(lit) <= Len(s) /\ \A k \in 1..Len(lit) : Ch(s, i + k - 1) = lit[k]
    THEN i + Len(lit)
    ELSE NoMatch

\* [ \t]+
MatchWhitespace(s, i) ==
    LET j == SkipIn(s, i, {" ", "\t"}) IN IF j > i THEN j ELSE NoMatch

\* \r?\n
MatchNewline(s, i) ==
    IF MatchLiteral(s, i, <<"\n">>) # NoMatch THEN i + 1
    ELSE MatchLiteral(s, i, <<"\r", "\n">>)

\* //[^\r\n]*
MatchLineComment(s, i) ==
    IF MatchLiteral(s, i, <<"/", "/">>) = NoMatch THEN NoMatch
    ELSE SkipNotIn(s, i + 2, {"\r", "\n"})

RECURSIVE FindBlockEnd(_, _)
\* the lazy [\s\S]*?\*/ : the end of the first '*/' at or after j
FindBlockEnd(s, j) ==
    IF j + 2 > Len(s) THEN NoMatch
    ELSE IF MatchLiteral(s, j, <<"*", "/">>) # NoMatch THEN j + 2
    ELSE FindBlockEnd(s, j + 1)

\* /\*[\s\S]*?\*/
MatchBlockComment(s, i) ==
    IF MatchLiteral(s, i, <<"/", "*">>) = NoMatch THEN NoMatch
    ELSE FindBlockEnd(s, i + 2)

RECURSIVE QuotedBody(_, _, _)
\* (?:[^q\\]|\\.)* : the two alternatives start with different characters,
\* so the greedy scan is the only way to match; '.' excludes the newline
QuotedBody(s, j, q) ==
    IF j >= Len(s) THEN j
    ELSE IF Ch(s, j) \notin {q, "\\"} THEN QuotedBody(s, j + 1, q)
    ELSE IF Ch(s, j) = "\\" /\ j + 1 < Len(s) /\ Ch(s, j + 1) # "\n"
         THEN QuotedBody(s, j + 2, q)
    ELSE j

\* "(?:[^"\\]|\\.)*"  and  '(?:[^'\\]|\\.)*'
MatchQuoted(s, i, q) ==
    IF Ch(s, i) # q THEN NoMatch
    ELSE LET j == QuotedBody(s, i + 1, q)
         IN IF j < Len(s) /\ Ch(s, j) = q THEN j + 1 ELSE NoMatch

\* \[[^\]]+\]
MatchColumnRef(s, i) ==
    IF Ch(s, i) # "[" THEN NoMatch
    ELSE LET j == SkipNotIn(s, i + 1, {"]"})
         IN IF j > i + 1 /\ j < Len(s) THEN j + 1 ELSE NoMatch

\* (?:[eE][+-]?\d+)? starting at j: the group is skipped when it cannot match
MatchExponent(s, j) ==
    IF j < Len(s) /\ Ch(s, j) \in {"e", "E"}
    THEN LET k == IF j + 1 < Len(s) /\ Ch(s, j + 1) \in {"+", "-"} THEN j + 2 ELSE j + 1
             m == SkipIn(s, k, Digits)
         IN IF m > k THEN m ELSE j
    ELSE j

\* \d+\.\d+(?:[eE][+-]?\d+)?
MatchFloat(s, i) ==
    LET j == SkipIn(s, i, Digits)
    IN IF j > i /\ j < Len(s) /\ Ch(s, j) = "."
       THEN LET k == SkipIn(s, j + 1, Digits)
            IN IF k > j + 1 THEN MatchExponent(s, k) ELSE NoMatch
       ELSE NoMatch

\* \d+(?:[eE][+-]?\d+)?
MatchInteger(s, i) ==
    LET j == SkipIn(s, i, Digits)
    IN IF j > i THEN MatchExponent(s, j) ELSE NoMatch

\* [a-zA-Z_][a-zA-Z0-9_]*
MatchIdentifier(s, i) ==
    IF Ch(s, i) \in IdentStart THEN SkipIn(s, i + 1, IdentPart) ELSE NoMatch

\* lexer.py: DaxLexer.TOKEN_PATTERNS, in the order they are tried
TOKEN_PATTERNS == <<
    [re |-> "ws",      lit |-> <<>>,         type |-> "WHITESPACE"],
    [re |-> "nl",      lit |-> <<>>,         type |-> "NEWLINE"],
    [re |-> "line",    lit |-> <<>>,         type |-> "COMMENT"],
    [re |-> "block",   lit |-> <<>>,         type |-> "COMMENT"],
    [re |-> "dquote",  lit |-> <<>>,         type |-> "STRING"],
    [re |-> "squote",  lit |-> <<>>,         type |-> "QUOTED_IDENTIFIER"],
    [re |-> "colref",  lit |-> <<>>,         type |-> "COLUMN_REF"],
    [re |-> "float",   lit |-> <<>>,         type |-> "FLOAT"],
    [re |-> "int",     lit |-> <<>>,         type |-> "INTEGER"],
    [re |-> "lit",     lit |-> <<"<", ">">>, type |-> "NOT_EQUALS"],
    [re |-> "lit",     lit |-> <<"<", "=">>, type |-> "LESS_EQUAL"],
    [re |-> "lit",     lit |-> <<">", "=">>, type |-> "GREATER_EQUAL"],
    [re |-> "lit",     lit |-> <<"&", "&">>, type |-> "AND"],
    [re |-> "lit",     lit |-> <<"|", "|">>, type |-> "OR"],
    [re |-> "lit",     lit |-> <<"+">>,      type |-> "PLUS"],
    [re |-> "lit",     lit |-> <<"-">>,      type |-> "MINUS"],
    [re |-> "lit",     lit |-> <<"*">>,      type |-> "MULTIPLY"],
    [re |-> "lit",     lit |-> <<"/">>,      type |-> "DIVIDE"],
    [re |-> "lit",     lit |-> <<"^">>,      type |-> "POWER"],
    [re |-> "lit",     lit |-> <<"=">>,      type |-> "EQUALS"],
    [re |-> "lit",     lit |-> <<"<">>,      type |-> "LESS_THAN"],
    [re |-> "lit",     lit |-> <<">">>,      type |-> "GREATER_THAN"],
    [re |-> "lit",     lit |-> <<"&">>,      type |-> "AMPERSAND"],
    [re |-> "lit",     lit |-> <<"(">>,      type |-> "LPAREN"],
    [re |-> "lit",     lit |-> <<")">>,      type |-> "RPAREN"],
    [re |-> "lit",     lit |-> <<"[">>,      type |-> "LBRACKET"],
    [re |-> "lit",     lit |-> <<"]">>,      type |-> "RBRACKET"],
    [re |-> "lit",     lit |-> <<",">>,      type |-> "COMMA"],
    [re |-> "lit",     lit |-> <<";">>,      type |-> "SEMICOLON"],
    [re |-> "lit",     lit |-> <<".">>,      type |-> "DOT"],
    [re |-> "ident",   lit |-> <<>>,         type |-> "IDENTIFIER"] >>

\* pattern.match(self.source, self.position) for one entry of TOKEN_PATTERNS
MatchPattern(p, s, i) ==
    CASE p.re = "ws"     -> MatchWhitespace(s, i)
      [] p.re = "nl"     -> MatchNewline(s, i)
      [] p.re = "line"   -> MatchLineComment(s, i)
      [] p.re = "block"  -> MatchBlockComment(s, i)
      [] p.re = "dquote" -> MatchQuoted(s, i, "\"")
      [] p.re = "squote" -> MatchQuoted(s, i, "'")
      [] p.re = "colref" -> MatchColumnRef(s, i)
      [] p.re = "float"  -> MatchFloat(s, i)
      [] p.re = "int"    -> MatchInteger(s, i)
      [] p.re = "lit"    -> MatchLiteral(s, i, p.lit)
      [] p.re = "ident"  -> MatchIdentifier(s, i)

\* the sub-sequence of s between 0-based offsets i (inclusive) and j (exclusive)
Slice(s, i, j) == SubSeq(s, i + 1, j)

\* lexer.py: DaxLexer._classify_token
ClassifyToken(base_type, value) ==
    IF base_type = "IDENTIFIER"
    THEN LET upper_value == Join(Upper(value))
         IN IF upper_value \in DAX_KEYWORDS
            THEN IF upper_value \in {"TRUE", "FALSE", "BLANK", "VAR", "RETURN",
                                     "AND", "OR", "NOT"}
                 THEN upper_value
                 ELSE "KEYWORD"
            ELSE base_type
    ELSE base_type

Token(type, value, line, column, position) ==
    [type |-> type, value |-> value, line |-> line, column |-> column,
     position |-> position]

\* the least element of a non-empty set of pattern indexes, 0 for the empty set
FirstOf(hits) == IF hits = {} THEN 0 ELSE CHOOSE k \in hits : \A m \in hits : k <= m

\* the first entry of TOKEN_PATTERNS that matches at offset i, 0 when none does
FirstPattern(s, i) ==
    FirstOf({k \in DOMAIN TOKEN_PATTERNS : MatchPattern(TOKEN_PATTERNS[k], s, i) # NoMatch})

(***************************************************************************)
(* lexer.py: class DaxLexer.  A lexer object is a record; has_tokens is    *)
(* FALSE while self._tokens is None.                                       *)
(***************************************************************************)
\* DaxLexer.__init__
NewLexer(source) ==
    [source |-> source, position |-> 0, line |-> 1, column |-> 1,
     has_tokens |-> FALSE, tokens |-> <<>>]

\* LexerError(message, line, column, position)
LexerError(char, line, column, position) ==
    [kind |-> "LexerError", has_pos |-> TRUE, line |-> line, column |-> column,
     position |-> position, msg |-> "Unexpected character", value |-> <<char>>]

\* the token of type token_type that ends at offset end, and the advanced lexer
MatchedToken(lx, token_type, end) ==
    LET value == Slice(lx.source, lx.position, end)
    IN [st |-> "ok",
        token |-> Token(ClassifyToken(token_type, value), value,
                        lx.line, lx.column, lx.position),
        lexer |-> [lx EXCEPT !.position = end,
                             !.column = IF token_type # "NEWLINE"
                                        THEN lx.column + Len(value)
                                        ELSE lx.column]]

\* the body of the for loop of _next_token at the first matching pattern k,
\* or the LexerError raised after the loop when k = 0
TokenAt(lx, k) ==
    IF k = 0
    THEN [st |-> "LexerError", lexer |-> lx,
          error |-> LexerError(Ch(lx.source, lx.position), lx.line, lx.column, lx.position)]
    ELSE MatchedToken(lx, TOKEN_PATTERNS[k].type,
                      MatchPattern(TOKEN_PATTERNS[k], lx.source, lx.position))

\* DaxLexer._next_token, called with self.position < len(self.source):
\* the token and the advanced lexer, or the LexerError it raises
NextToken(lx) == TokenAt(lx, FirstPattern(lx.source, lx.position))

\* the token types tokenize does not append to self._tokens
SkippedTypes == {"WHITESPACE", "COMMENT"}

\* if token.type not in {WHITESPACE, COMMENT}: self._tokens.append(token)
AppendToken(lx, token) ==
    IF token.type \notin SkippedTypes
    THEN [lx EXCEPT !.tokens = Append(@, token)]
    ELSE lx

\* if token.type == NEWLINE: self.line += 1; self.column = 1
TrackLine(lx, token) ==
    IF token.type = "NEWLINE"
    THEN [lx EXCEPT !.line = @ + 1, !.column = 1]
    ELSE lx

RECURSIVE TokenizeLoop(_), TokenizeStep(_)
\* the while loop of DaxLexer.tokenize
TokenizeLoop(lx) ==
    IF lx.position >= Len(lx.source) THEN [st |-> "ok", lexer |-> lx]
    ELSE TokenizeStep(NextToken(lx))

\* the body of the while loop after token = self._next_token() gave r
TokenizeStep(r) ==
    IF r.st # "ok" THEN r
    ELSE TokenizeLoop(TrackLine(AppendToken(r.lexer, r.token), r.token))

\* the end of DaxLexer.tokenize after the loop gave r: the EOF token is
\* appended and self._tokens returned, or the LexerError goes on
TokenizeEnd(r) ==
    IF r.st # "ok" THEN r
    ELSE LET eof == Token("EOF", <<>>, r.lexer.line, r.lexer.column, r.lexer.position)
             done == [r.lexer EXCEPT !.tokens = Append(@, eof)]
         IN [st |-> "ok", tokens |-> done.tokens, lexer |-> done]

\* DaxLexer.tokenize: the outcome (st = "ok" with the returned list in
\* tokens, or st = "LexerError" with error) and the lexer object afterwards
Tokenize(lx) ==
    IF lx.has_tokens THEN [st |-> "ok", tokens |-> lx.tokens, lexer |-> lx]
    ELSE TokenizeEnd(TokenizeLoop([lx EXCEPT !.has_tokens = TRUE, !.tokens = <<>>,
                                            !.position = 0, !.line = 1, !.column = 1]))

\* lexer.py: tokenize_dax
TokenizeDax(source) == Tokenize(NewLexer(source))

(***************************************************************************)
(* ast_nodes.py: the AST nodes the parser builds, as records tagged by     *)
(* their type.  Names and string values are character sequences.           *)
(***************************************************************************)
DaxLiteral(value, literal_type) ==
    [type |-> "literal", value |-> value, literal_type |-> literal_type]

DaxColumn(has_table, table_name, column_name) ==
    [type |-> "column", has_table |-> has_table, table_name |-> table_name,
     column_name |-> column_name]

DaxTable(table_name) == [type |-> "table", table_name |-> table_name]

DaxFunction(function_name, arguments) ==
    [type |-> "function", function_name |-> function_name, arguments |-> arguments]

DaxBinaryOp(left, operator, right) ==
    [type |-> "binary_op", left |-> left, operator |-> operator, right |-> right]

DaxUnaryOp(operator, operand) ==
    [type |-> "unary_op", operator |-> operator, operand |-> operand]

DaxMeasure(name, expression) ==
    [type |-> "measure", name |-> name, expression |-> expression]

\* the placeholder of a failed parse: DaxLiteral(None, "blank")
BlankLiteral == DaxLiteral("None", "blank")

(***************************************************************************)
(* Conversions of number lexemes.                                          *)
(***************************************************************************)
DigitValue(c) == CHOOSE d \in 0..9 : <<"0", "1", "2", "3", "4", "5", "6", "7", "8", "9">>[d + 1] = c

RECURSIVE DecimalValue(_)
\* the number written by a sequence of digits
DecimalValue(ds) ==
    IF ds = <<>> THEN 0
    ELSE 10 * DecimalValue(SubSeq(ds, 1, Len(ds) - 1)) + DigitValue(ds[Len(ds)])

\* int(lexeme) on an INTEGER lexeme: digits convert, an exponent part
\* makes int() raise ValueError
IntOf(lexeme) ==
    IF \A i \in DOMAIN lexeme : lexeme[i] \in Digits
    THEN [st |-> "ok", value |-> DecimalValue(lexeme)]
    ELSE [st |-> "ValueError"]

RECURSIVE StripZeros(_, _)
StripZeros(m, e) ==
    IF m = 0 THEN <<0, 0>>
    ELSE IF m % 10 = 0 THEN StripZeros(m \div 10, e + 1)
    ELSE <<m, e>>

\* float(lexeme) on a FLOAT lexeme, as the exact decimal mantissa * 10^exp10
FloatOf(lexeme) ==
    LET dot == CHOOSE i \in DOMAIN lexeme : lexeme[i] = "."
        fracEnd == SkipIn(lexeme, dot, Digits)
        whole == SubSeq(lexeme, 1, dot - 1)
        frac == SubSeq(lexeme, dot + 1, fracEnd)
        hasExp == fracEnd < Len(lexeme)
        negExp == hasExp /\ lexeme[fracEnd + 2] = "-"
        expDigits == IF ~hasExp THEN <<>>
                     ELSE IF lexeme[fracEnd + 2] \in {"+", "-"}
                          THEN SubSeq(lexeme, fracEnd + 3, Len(lexeme))
                          ELSE SubSeq(lexeme, fracEnd + 2, Len(lexeme))
        e == IF negExp THEN 0 - DecimalValue(expDigits) ELSE DecimalValue(expDigits)
        n == StripZeros(DecimalValue(whole \o frac), e - Len(frac))
    IN [mantissa |-> n[1], exp10 |-> n[2]]

\* value[1:-1]
StripEnds(value) == SubSeq(value, 2, Len(value) - 1)

(***************************************************************************)
(* parser.py: error strings and the parser's token helpers.  The parser    *)
(* position is self.current, a 0-based index into self.tokens.             *)
(***************************************************************************)
\* str(exception): the message text, and the position when the text has one
ErrorString(kind, has_pos, line, column, msg, value) ==
    [kind |-> kind, has_pos |-> has_pos, line |-> line, column |-> column,
     msg |-> msg, value |-> value]

\* str(LexerError)
LexerErrorString(e) == ErrorString("LexerError", TRUE, e.line, e.column, e.msg, e.value)

\* ParseError(message) raised without a token: "Parse error: {message}"
ParseErrorNoToken(msg) == ErrorString("ParseError", FALSE, 0, 0, msg, <<>>)

\* ParseError(message, token): "Parse error at line .., column ..: {message}"
ParseErrorAt(msg, token) ==
    ErrorString("ParseError", TRUE, token.line, token.column, msg, token.value)

\* the entry "Unexpected token after expression: {token.value}"
TrailingError(token) ==
    ErrorString("Trailing", FALSE, 0, 0, "Unexpected token after expression", token.value)

Ok(ast, cur) == [st |-> "ok", ast |-> ast, cur |-> cur]

Raise(kind, error, cur) == [st |-> kind, error |-> error, cur |-> cur]

\* DaxParser._peek
Peek(toks, cur) == toks[cur + 1]

\* DaxParser._previous; tokens[-1] is the last token
Previous(toks, cur) == IF cur = 0 THEN toks[Len(toks)] ELSE toks[cur]

\* DaxParser._is_at_end
IsAtEnd(toks, cur) == Peek(toks, cur).type = "EOF"

\* DaxParser._advance: the new self.current
Advance(toks, cur) == IF ~IsAtEnd(toks, cur) THEN cur + 1 ELSE cur

\* DaxParser._check
Check(toks, cur, token_type) ==
    IF IsAtEnd(toks, cur) THEN FALSE ELSE Peek(toks, cur).type = token_type

\* DaxParser._match with several types: would one of them be consumed
CheckAny(toks, cur, token_types) == \E t \in token_types : Check(toks, cur, t)

(***************************************************************************)
(* parser.py: the recursive-descent methods.  Each takes self.tokens and   *)
(* self.current and yields Ok(ast, current) or the exception it raises     *)
(* together with self.current at that moment.                              *)
(***************************************************************************)
\* token type -> BinaryOperator, per precedence level
LogicOrOps == [OR |-> "OR"]

LogicAndOps == [AND |-> "AND"]

EqualityOps == [EQUALS |-> "EQUALS", NOT_EQUALS |-> "NOT_EQUALS"]

ComparisonOps == [LESS_THAN |-> "LESS_THAN", LESS_EQUAL |-> "LESS_EQUAL",
                  GREATER_THAN |-> "GREATER_THAN", GREATER_EQUAL |-> "GREATER_EQUAL"]

TermOps == [PLUS |-> "ADD", MINUS |-> "SUBTRACT", AMPERSAND |-> "AMPERSAND"]

\* _factor also taking '+', as if the level of '+' were misplaced
FactorOpsWithPlus == [MULTIPLY |-> "MULTIPLY", DIVIDE |-> "DIVIDE", PLUS |-> "ADD"]

FactorOps == [MULTIPLY |-> "MULTIPLY", DIVIDE |-> "DIVIDE"]

\* token type -> UnaryOperator
UnaryOps == [MINUS |-> "NEGATE", NOT |-> "NOT"]

\* the outcome of an operand parser handed on: an exception propagates,
\* otherwise DaxBinaryOp(left, operator, right) is built
BinaryOf(left, operator, right) ==
    IF right.st # "ok" THEN right
    ELSE Ok(DaxBinaryOp(left.ast, operator, right.ast), right.cur)

\* likewise DaxUnaryOp(operator, operand)
UnaryOf(operator, operand) ==
    IF operand.st # "ok" THEN operand
    ELSE Ok(DaxUnaryOp(operator, operand.ast), operand.cur)

RECURSIVE Expression(_, _), VarExpression(_, _), VarLoop(_, _), VarNext(_, _),
          VarReturn(_, _),
          LogicOr(_, _), LogicOrLoop(_, _), LogicAnd(_, _), LogicAndLoop(_, _),
          Equality(_, _), EqualityLoop(_, _), Comparison(_, _), ComparisonLoop(_, _),
          Term(_, _), TermLoop(_, _), Factor(_, _), FactorLoop(_, _),
          Unary(_, _), Power(_, _), PowerRest(_, _), PowerLeftLoop(_, _),
          Call(_, _), CallRest(_, _), CallEnd(_, _, _), Arguments(_, _),
          ArgumentsLoop(_, _, _), Primary(_, _), Grouped(_, _)

\* DaxParser._qualified_reference
QualifiedReference(toks, cur) ==
    IF ~CheckAny(toks, cur, {"QUOTED_IDENTIFIER", "IDENTIFIER", "KEYWORD"})
    THEN Raise("ParseError", ParseErrorNoToken("Expected identifier"), cur)
    ELSE LET token == Peek(toks, cur)
             name == IF token.type = "QUOTED_IDENTIFIER" THEN StripEnds(token.value)
                     ELSE token.value
             c1 == Advance(toks, cur)
         IN IF Check(toks, c1, "COLUMN_REF")
            THEN Ok(DaxColumn(TRUE, name, StripEnds(Peek(toks, c1).value)), Advance(toks, c1))
            ELSE Ok(DaxTable(name), c1)

\* DaxParser._primary
Primary(toks, cur) ==
    IF Check(toks, cur, "TRUE") THEN Ok(DaxLiteral(TRUE, "boolean"), Advance(toks, cur))
    ELSE IF Check(toks, cur, "FALSE") THEN Ok(DaxLiteral(FALSE, "boolean"), Advance(toks, cur))
    ELSE IF Check(toks, cur, "BLANK")
    THEN LET c1 == Advance(toks, cur)
             c2 == IF Check(toks, c1, "LPAREN")
                   THEN LET c3 == Advance(toks, c1)
                        IN IF Check(toks, c3, "RPAREN") THEN Advance(toks, c3) ELSE c3
                   ELSE c1
         IN Ok(BlankLiteral, c2)
    ELSE IF Check(toks, cur, "INTEGER")
    THEN LET c1 == Advance(toks, cur)
             n == IntOf(Previous(toks, c1).value)
         IN IF n.st = "ok" THEN Ok(DaxLiteral(n.value, "integer"), c1)
            ELSE Raise("ValueError", ErrorString("ValueError", FALSE, 0, 0,
                       "invalid literal for int() with base 10", Previous(toks, c1).value), c1)
    ELSE IF Check(toks, cur, "FLOAT")
    THEN LET c1 == Advance(toks, cur)
         IN Ok(DaxLiteral(FloatOf(Previous(toks, c1).value), "float"), c1)
    ELSE IF Check(toks, cur, "STRING")
    THEN LET c1 == Advance(toks, cur)
         IN Ok(DaxLiteral(StripEnds(Previous(toks, c1).value), "string"), c1)
    ELSE IF Check(toks, cur, "COLUMN_REF")
    THEN LET c1 == Advance(toks, cur)
         IN Ok(DaxColumn(FALSE, <<>>, StripEnds(Previous(toks, c1).value)), c1)
    ELSE IF Check(toks, cur, "IDENTIFIER") \/ Check(toks, cur, "QUOTED_IDENTIFIER")
    THEN QualifiedReference(toks, cur)
    ELSE IF Check(toks, cur, "KEYWORD")
    THEN QualifiedReference(toks, cur)
    ELSE IF Check(toks, cur, "LPAREN")
    THEN Grouped(toks, Expression(toks, Advance(toks, cur)))
    ELSE Raise("ParseError", ParseErrorAt("Unexpected token", Peek(toks, cur)), cur)

\* the end of a parenthesised expression whose inside gave e
Grouped(toks, e) ==
    IF e.st # "ok" THEN e
    ELSE IF Check(toks, e.cur, "RPAREN") THEN Ok(e.ast, Advance(toks, e.cur))
    ELSE Raise("ParseError",
               ParseErrorNoToken("Expected ')' after grouped expression"), e.cur)

\* the while loop of DaxParser._arguments: args are the arguments before
\* the latest one, whose parse gave e
ArgumentsLoop(toks, args, e) ==
    IF e.st # "ok" THEN e
    ELSE IF Check(toks, e.cur, "COMMA")
    THEN ArgumentsLoop(toks, Append(args, e.ast), Expression(toks, Advance(toks, e.cur)))
    ELSE Ok(Append(args, e.ast), e.cur)

\* DaxParser._arguments; the ast field of the result is the argument list
Arguments(toks, cur) ==
    IF ~Check(toks, cur, "RPAREN")
    THEN ArgumentsLoop(toks, <<>>, Expression(toks, cur))
    ELSE Ok(<<>>, cur)

\* the end of a function call whose arguments gave args
CallEnd(toks, function_name, args) ==
    IF args.st # "ok" THEN args
    ELSE IF Check(toks, args.cur, "RPAREN")
    THEN Ok(DaxFunction(function_name, args.ast), Advance(toks, args.cur))
    ELSE Raise("ParseError",
               ParseErrorNoToken("Expected ')' after function arguments"), args.cur)

\* DaxParser._call after expr = self._primary()
CallRest(toks, expr) ==
    IF expr.st # "ok" THEN expr
    ELSE IF expr.ast.type = "table" /\ Check(toks, expr.cur, "LPAREN")
    THEN CallEnd(toks, expr.ast.table_name, Arguments(toks, Advance(toks, expr.cur)))
    ELSE expr

\* DaxParser._call
Call(toks, cur) == CallRest(toks, Primary(toks, cur))

\* _power looping over '^' like the other levels: left-associative
PowerLeftLoop(toks, r) ==
    IF r.st # "ok" THEN r
    ELSE IF Check(toks, r.cur, "POWER")
    THEN PowerLeftLoop(toks, BinaryOf(r, "POWER", Call(toks, Advance(toks, r.cur))))
    ELSE r

PowerLeft(toks, cur) == PowerLeftLoop(toks, Call(toks, cur))

\* DaxParser._power
Power(toks, cur) == PowerRest(toks, Call(toks, cur))

\* DaxParser._power after expr = self._call(): the right operand of '^' is
\* self._power()
PowerRest(toks, expr) ==
    IF expr.st # "ok" THEN expr
    ELSE IF Check(toks, expr.cur, "POWER")
    THEN BinaryOf(expr, "POWER", Power(toks, Advance(toks, expr.cur)))
    ELSE expr

\* DaxParser._unary
Unary(toks, cur) ==
    IF CheckAny(toks, cur, DOMAIN UnaryOps)
    THEN UnaryOf(UnaryOps[Peek(toks, cur).type], Unary(toks, Advance(toks, cur)))
    ELSE Power(toks, cur)

\* the while loop of DaxParser._factor; r is the outcome of the expression parsed so far
FactorLoop(toks, r) ==
    IF r.st # "ok" THEN r
    ELSE IF CheckAny(toks, r.cur, DOMAIN FactorOps)
    THEN FactorLoop(toks, BinaryOf(r, FactorOps[Peek(toks, r.cur).type],
                    Unary(toks, Advance(toks, r.cur))))
    ELSE r

\* DaxParser._factor
Factor(toks, cur) == FactorLoop(toks, Unary(toks, cur))

\* the while loop of DaxParser._term
TermLoop(toks, r) ==
    IF r.st # "ok" THEN r
    ELSE IF CheckAny(toks, r.cur, DOMAIN TermOps)
    THEN TermLoop(toks, BinaryOf(r, TermOps[Peek(toks, r.cur).type],
                    Factor(toks, Advance(toks, r.cur))))
    ELSE r

\* DaxParser._term
Term(toks, cur) == TermLoop(toks, Factor(toks, cur))

\* the while loop of DaxParser._comparison
ComparisonLoop(toks, r) ==
    IF r.st # "ok" THEN r
    ELSE IF CheckAny(toks, r.cur, DOMAIN ComparisonOps)
    THEN ComparisonLoop(toks, BinaryOf(r, ComparisonOps[Peek(toks, r.cur).type],
                    Term(toks, Advance(toks, r.cur))))
    ELSE r

\* DaxParser._comparison
Comparison(toks, cur) == ComparisonLoop(toks, Term(toks, cur))

\* the while loop of DaxParser._equality
EqualityLoop(toks, r) ==
    IF r.st # "ok" THEN r
    ELSE IF CheckAny(toks, r.cur, DOMAIN EqualityOps)
    THEN EqualityLoop(toks, BinaryOf(r, EqualityOps[Peek(toks, r.cur).type],
                    Comparison(toks, Advance(toks, r.cur))))
    ELSE r

\* DaxParser._equality
Equality(toks, cur) == EqualityLoop(toks, Comparison(toks, cur))

\* the while loop of DaxParser._logic_and
LogicAndLoop(toks, r) ==
    IF r.st # "ok" THEN r
    ELSE IF CheckAny(toks, r.cur, DOMAIN LogicAndOps)
    THEN LogicAndLoop(toks, BinaryOf(r, LogicAndOps[Peek(toks, r.cur).type],
                    Equality(toks, Advance(toks, r.cur))))
    ELSE r

\* DaxParser._logic_and
LogicAnd(toks, cur) == LogicAndLoop(toks, Equality(toks, cur))

\* the while loop of DaxParser._logic_or
LogicOrLoop(toks, r) ==
    IF r.st # "ok" THEN r
    ELSE IF CheckAny(toks, r.cur, DOMAIN LogicOrOps)
    THEN LogicOrLoop(toks, BinaryOf(r, LogicOrOps[Peek(toks, r.cur).type],
                    LogicAnd(toks, Advance(toks, r.cur))))
    ELSE r

\* DaxParser._logic_or
LogicOr(toks, cur) == LogicOrLoop(toks, LogicAnd(toks, cur))

\* the while loop of DaxParser._var_expression: the position after the
\* VAR definitions (their values are parsed and dropped)
VarLoop(toks, cur) ==
    IF Check(toks, cur, "VAR")
    THEN LET c1 == Advance(toks, cur)
         IN IF ~Check(toks, c1, "IDENTIFIER")
            THEN Raise("ParseError", ParseErrorNoToken("Expected variable name after VAR"), c1)
            ELSE LET c2 == Advance(toks, c1)
                 IN IF ~Check(toks, c2, "EQUALS")
                    THEN Raise("ParseError",
                               ParseErrorNoToken("Expected '=' in variable definition"), c2)
                    ELSE VarNext(toks, LogicOr(toks, Advance(toks, c2)))
    ELSE Ok(BlankLiteral, cur)

\* the loop goes on after the value of a VAR definition gave value
VarNext(toks, value) ==
    IF value.st # "ok" THEN value ELSE VarLoop(toks, value.cur)

\* DaxParser._var_expression after the VAR definitions gave defs
VarReturn(toks, defs) ==
    IF defs.st # "ok" THEN defs
    ELSE IF ~Check(toks, defs.cur, "RETURN")
    THEN Raise("ParseError", ParseErrorNoToken("Expected RETURN after VAR definitions"),
               defs.cur)
    ELSE Expression(toks, Advance(toks, defs.cur))

\* DaxParser._var_expression
VarExpression(toks, cur) == VarReturn(toks, VarLoop(toks, cur))

\* DaxParser._expression
Expression(toks, cur) ==
    IF Check(toks, cur, "VAR") THEN VarExpression(toks, cur) ELSE LogicOr(toks, cur)

(***************************************************************************)
(* parser.py: class DaxParser and its two entry points.  A call yields     *)
(* [st |-> "return", result |-> ParseResult] or [st |-> "raise", exc |-> e]*)
(* for an exception that leaves the entry point, and the parser object     *)
(* after the call.                                                         *)
(***************************************************************************)
\* DaxParser.__init__
NewParser == [tokens |-> <<>>, current |-> 0, source |-> <<>>, errors |-> <<>>]

ParseResult(ast, toks, source, errors) ==
    [ast |-> ast, tokens |-> toks, source |-> source, errors |-> errors]

\* ParseResult.success
Success(result) == Len(result.errors) = 0

\* a call that returned; raised names the exception the entry point caught
Returned(parser, result, raised) ==
    [st |-> "return", result |-> result, raised |-> raised, parser |-> parser]

\* a call that an exception left
Escaped(parser, exc) == [st |-> "raise", exc |-> exc, raised |-> exc.kind, parser |-> parser]

\* self.errors.append(str(e)) in the except ParseError branch
RecordErrorDropped(errors, e) == errors

RecordError(errors, e) == Append(errors, e)

\* the check of DaxParser.parse for unconsumed tokens: the errors it appends
UnconsumedErrors(toks, cur) ==
    IF ~IsAtEnd(toks, cur) THEN <<TrailingError(Peek(toks, cur))>> ELSE <<>>

\* the except ParseError branch of both entry points, for the outcome r of
\* the try body; any other exception leaves the entry point
Caught(p1, r) ==
    IF r.st = "ParseError"
    THEN LET p2 == [p1 EXCEPT !.current = r.cur, !.errors = RecordError(@, r.error)]
         IN Returned(p2, ParseResult(BlankLiteral, p2.tokens, p2.source, p2.errors),
                     "ParseError")
    ELSE Escaped([p1 EXCEPT !.current = r.cur], r.error)

\* the except LexerError branch of both entry points
LexerFailed(p0, e) ==
    Returned(p0, ParseResult(BlankLiteral, <<>>, p0.source, <<LexerErrorString(e)>>),
             "LexerError")

\* DaxParser.parse after ast = self._expression() gave r
ParseEnd(p1, r) ==
    IF r.st = "ok"
    THEN LET p2 == [p1 EXCEPT !.current = r.cur,
                              !.errors = @ \o UnconsumedErrors(p1.tokens, r.cur)]
         IN Returned(p2, ParseResult(r.ast, p2.tokens, p2.source, p2.errors), "none")
    ELSE Caught(p1, r)

\* DaxParser.parse after self.tokens = tokenize_dax(source) gave lexed
ParseTokens(p0, lexed) ==
    IF lexed.st = "LexerError" THEN LexerFailed(p0, lexed.error)
    ELSE ParseEnd([p0 EXCEPT !.tokens = lexed.tokens],
                  Expression(lexed.tokens, p0.current))

\* DaxParser.parse
Parse(self, source) ==
    ParseTokens([self EXCEPT !.source = source, !.errors = <<>>, !.current = 0],
                TokenizeDax(source))

\* DaxMeasure(name, expression) for the outcome expr of self._expression()
MeasureOf(name, expr) ==
    IF expr.st # "ok" THEN expr ELSE Ok(DaxMeasure(name, expr.ast), expr.cur)

\* the body of DaxParser.parse_measure after tokenizing: [Name] = expression
MeasureBody(toks, cur) ==
    IF ~Check(toks, cur, "COLUMN_REF")
    THEN Raise("ParseError", ParseErrorNoToken("Expected measure name in brackets [Name]"), cur)
    ELSE LET c1 == Advance(toks, cur)
         IN IF ~Check(toks, c1, "EQUALS")
            THEN Raise("ParseError", ParseErrorNoToken("Expected '=' after measure name"), c1)
            ELSE MeasureOf(StripEnds(Previous(toks, c1).value),
                           Expression(toks, Advance(toks, c1)))

\* DaxParser.parse_measure after the try body gave r: no check for
\* unconsumed tokens
MeasureEnd(p1, r) ==
    IF r.st = "ok"
    THEN LET p2 == [p1 EXCEPT !.current = r.cur]
         IN Returned(p2, ParseResult(r.ast, p2.tokens, p2.source, p2.errors), "none")
    ELSE Caught(p1, r)

\* DaxParser.parse_measure after self.tokens = tokenize_dax(source) gave lexed
MeasureTokens(p0, lexed) ==
    IF lexed.st = "LexerError" THEN LexerFailed(p0, lexed.error)
    ELSE MeasureEnd([p0 EXCEPT !.tokens = lexed.tokens],
                    MeasureBody(lexed.tokens, p0.current))

\* DaxParser.parse_measure
ParseMeasure(self, source) ==
    MeasureTokens([self EXCEPT !.source = source, !.errors = <<>>, !.current = 0],
                  TokenizeDax(source))

(***************************************************************************)
(* context.py: TableRelationship and SchemaContext.get_join_path.  Table   *)
(* names are character sequences; a path is a list of relationships.       *)
(***************************************************************************)
TableRelationship(from_table, from_column, to_table, to_column, is_active) ==
    [from_table |-> from_table, from_column |-> from_column,
     to_table |-> to_table, to_column |-> to_column,
     relationship_type |-> "MANY_TO_ONE", cross_filter |-> "SINGLE",
     is_active |-> is_active]

\* the direction test of get_join_path with the reverse direction forgotten
NextTableForward(rel, current) ==
    IF Lower(rel.from_table) = current
    THEN [ok |-> TRUE, table |-> Lower(rel.to_table)]
    ELSE [ok |-> FALSE, table |-> <<>>]

\* get_join_path, "Check both directions": the table rel leads to from current
NextTable(rel, current) ==
    IF Lower(rel.from_table) = current
    THEN [ok |-> TRUE, table |-> Lower(rel.to_table)]
    ELSE IF Lower(rel.to_table) = current
    THEN [ok |-> TRUE, table |-> Lower(rel.from_table)]
    ELSE [ok |-> FALSE, table |-> <<>>]

RECURSIVE ScanRelationships(_, _, _, _, _, _, _)
\* the for loop of get_join_path over self.relationships from index i, for
\* the dequeued (current, path): found with the returned path, or the
\* visited set and the queue after the loop
ScanRelationships(rels, i, current, path, to_lower, visited, queue) ==
    IF i > Len(rels) THEN [found |-> FALSE, visited |-> visited, queue |-> queue]
    ELSE LET rel == rels[i]
             next == NextTable(rel, current)
         IN IF ~rel.is_active \/ ~next.ok \/ next.table \in visited
            THEN ScanRelationships(rels, i + 1, current, path, to_lower, visited, queue)
            ELSE LET new_path == Append(path, rel)
                 IN IF next.table = to_lower
                    THEN [found |-> TRUE, path |-> new_path]
                    ELSE ScanRelationships(rels, i + 1, current, path, to_lower,
                             visited \cup {next.table},
                             Append(queue, [table |-> next.table, path |-> new_path]))

RECURSIVE SearchQueue(_, _, _, _)
\* the while loop of get_join_path
SearchQueue(rels, to_lower, visited, queue) ==
    IF queue = <<>> THEN <<>>
    ELSE LET r == ScanRelationships(rels, 1, Head(queue).table, Head(queue).path,
                                    to_lower, visited, Tail(queue))
         IN IF r.found THEN r.path
            ELSE SearchQueue(rels, to_lower, r.visited, r.queue)

\* SchemaContext.get_join_path
GetJoinPath(rels, from_table, to_table) ==
    LET from_lower == Lower(from_table)
        to_lower == Lower(to_table)
    IN IF from_lower = to_lower THEN <<>>
       ELSE SearchQueue(rels, to_lower, {from_lower},
                        <<[table |-> from_lower, path |-> <<>>]>>)

RECURSIVE JoinLines(_)
\* '\n'.join(lines)
JoinLines(lines) ==
    IF lines = <<>> THEN <<>>
    ELSE IF Len(lines) = 1 THEN lines[1]
    ELSE lines[1] \o <<"\n">> \o JoinLines(Tail(lines))

\* TableRelationship.as_join
AsJoin(rel) ==
    rel.from_table \o <<".">> \o rel.from_column \o <<" ", "=", " ">>
        \o rel.to_table \o <<".">> \o rel.to_column

\* f"JOIN {join_table} ON {rel.as_join}"
JoinClause(join_table, rel) ==
    <<"J", "O", "I", "N", " ">> \o join_table \o <<" ", "O", "N", " ">> \o AsJoin(rel)

\* join_table of generate_joins, always taken as rel.to_table
JoinTableTo(rel, joined) == rel.to_table

\* join_table of generate_joins: the end of rel to join
JoinTable(rel, joined) ==
    IF Lower(rel.from_table) \in joined THEN rel.to_table ELSE rel.from_table

\* joins.append(..) and joined.add(..) for rel when join_table is new;
\* clauses keeps join_table and rel beside the text of every clause
JoinOne(join_table, rel, st) ==
    IF Lower(join_table) \notin st.joined
    THEN [joins |-> Append(st.joins, JoinClause(join_table, rel)),
          clauses |-> Append(st.clauses, [join_table |-> join_table, rel |-> rel,
                                          joined |-> st.joined]),
          joined |-> st.joined \cup {Lower(join_table)}]
    ELSE st

RECURSIVE JoinAlong(_, _)
\* the loop of generate_joins over the relationships of a path
JoinAlong(path, st) ==
    IF path = <<>> THEN st
    ELSE JoinAlong(Tail(path), JoinOne(JoinTable(Head(path), st.joined), Head(path), st))

\* the joined tables from which get_join_path finds a path to table: the
\* loop over the set joined takes the first of them in the order of the
\* set, which the hashes of the names decide
JoinStarts(rels, joined, table) == {j \in joined : GetJoinPath(rels, j, table) # <<>>}

\* the requested tables left when no joined table leads to the next one,
\* were the loop to stop there
RestAfterUnreachableNone(tables) == <<>>

\* the requested tables left when no joined table leads to the next one
RestAfterUnreachable(tables) == Tail(tables)

RECURSIVE JoinRequested(_, _, _)
RECURSIVE JoinFrom(_, _, _, _)
\* the loop of generate_joins over the joined tables, for the next table
\* requested, when starts are the joined tables that lead to it
JoinFrom(rels, tables, st, starts) ==
    IF starts = {} THEN JoinRequested(rels, RestAfterUnreachable(tables), st)
    ELSE UNION {JoinRequested(rels, Tail(tables),
                              JoinAlong(GetJoinPath(rels, j, Head(tables)), st)) :
                    j \in starts}

\* the loop of generate_joins over tables[1:]: every state it can end in
JoinRequested(rels, tables, st) ==
    IF tables = <<>> THEN {st}
    ELSE IF Lower(Head(tables)) \in st.joined THEN JoinRequested(rels, Tail(tables), st)
    ELSE JoinFrom(rels, tables, st, JoinStarts(rels, st.joined, Head(tables)))

\* SchemaContext.generate_joins: every outcome it can have, the text
\* returned with the clauses and the joined set behind it
GenerateJoins(rels, tables) ==
    IF Len(tables) < 2
    THEN {[text |-> <<>>, joins |-> <<>>, clauses |-> <<>>, joined |-> {}]}
    ELSE {[text |-> JoinLines(st.joins), joins |-> st.joins, clauses |-> st.clauses,
           joined |-> st.joined] :
             st \in JoinRequested(rels, Tail(tables),
                                  [joins |-> <<>>, clauses |-> <<>>,
                                   joined |-> {Lower(tables[1])}])}

(***************************************************************************)
(* context.py: class FilterContext.  filters is the dict in insertion      *)
(* order, a list of [key, conds]; names are character sequences and        *)
(* conditions are strings.                                                 *)
(***************************************************************************)
\* FilterContext()
NewFilterContext == [filters |-> <<>>, removed_filters |-> {}]

\* f"{table}.{column}"
FilterKey(table, column) == table \o <<".">> \o column

\* key in self.filters
HasFilterKey(filters, key) == \E i \in DOMAIN filters : filters[i].key = key

\* k.startswith(prefix)
StartsWith(k, prefix) == Len(k) >= Len(prefix) /\ SubSeq(k, 1, Len(prefix)) = prefix

\* self.filters[key].append(condition) that forgets the conditions already there
AppendConditionReplacing(filters, key, condition) ==
    [i \in DOMAIN filters |->
        IF filters[i].key = key THEN [filters[i] EXCEPT !.conds = <<condition>>]
        ELSE filters[i]]

\* self.filters[key].append(condition)
AppendCondition(filters, key, condition) ==
    [i \in DOMAIN filters |->
        IF filters[i].key = key THEN [filters[i] EXCEPT !.conds = Append(@, condition)]
        ELSE filters[i]]

\* FilterContext.add_filter
AddFilterTo(fc, table, column, condition) ==
    LET key == FilterKey(table, column)
        created == IF ~HasFilterKey(fc.filters, key)
                   THEN Append(fc.filters, [key |-> key, conds |-> <<>>])
                   ELSE fc.filters
    IN [fc EXCEPT !.filters = AppendCondition(created, key, condition)]

\* FilterContext.remove_filter; column is <<>> for None (and for the empty
\* string, which `if column:` treats alike)
RemoveFilterFrom(fc, table, column) ==
    IF column # <<>>
    THEN [fc EXCEPT !.removed_filters = @ \cup {FilterKey(table, column)}]
    ELSE [fc EXCEPT !.removed_filters =
              @ \cup {fc.filters[i].key : i \in {j \in DOMAIN fc.filters :
                          StartsWith(fc.filters[j].key, table \o <<".">>)}}]

\* FilterContext.get_effective_filters, in the order of the dict
GetEffectiveFilters(fc) ==
    SelectSeq(fc.filters, LAMBDA e : e.key \notin fc.removed_filters)

RECURSIVE AllConditions(_)
\* conditions.extend(filter_list) over the effective filters
AllConditions(effective) ==
    IF effective = <<>> THEN <<>>
    ELSE Head(effective).conds \o AllConditions(Tail(effective))

RECURSIVE JoinWith(_, _)
\* separator.join(strings)
JoinWith(separator, strings) ==
    IF strings = <<>> THEN ""
    ELSE IF Len(strings) = 1 THEN strings[1]
    ELSE strings[1] \o separator \o JoinWith(separator, Tail(strings))

\* FilterContext.to_where_clause
ToWhereClause(fc) ==
    IF GetEffectiveFilters(fc) = <<>> THEN ""
    ELSE JoinWith(" AND ", AllConditions(GetEffectiveFilters(fc)))

(***************************************************************************)
(* validator.py: class SqlValidator.  SQL text is a sequence of            *)
(* characters.  An issue is a ValidationIssue: its level, its message      *)
(* without the interpolated part, and the interpolated number or text.     *)
(***************************************************************************)
ValidationIssue(level, message, detail) ==
    [level |-> level, message |-> message, detail |-> detail]

\* the characters \s matches
SpaceChars == {" ", "\t", "\n", "\r", "\f"}

WordChars == IdentPart

\* str.strip(): the text without leading and trailing whitespace
RECURSIVE StripLeft(_)
StripLeft(s) == IF s # <<>> /\ Head(s) \in SpaceChars THEN StripLeft(Tail(s)) ELSE s

RECURSIVE StripRight(_)
StripRight(s) ==
    IF s # <<>> /\ s[Len(s)] \in SpaceChars THEN StripRight(SubSeq(s, 1, Len(s) - 1)) ELSE s

Strip(s) == StripRight(StripLeft(s))

RECURSIVE CollapseSpaces(_)
\* re.sub(r'\s+', ' ', sql)
CollapseSpaces(s) ==
    IF s = <<>> THEN <<>>
    ELSE IF Head(s) \in SpaceChars
    THEN <<" ">> \o CollapseSpaces(StripLeft(s))
    ELSE <<Head(s)>> \o CollapseSpaces(Tail(s))

\* SqlValidator._normalize_sql
NormalizeSql(sql) == Strip(CollapseSpaces(sql))

\* sub in s, for a text sub
Contains(s, sub) == \E i \in 0..(Len(s) - Len(sub)) : MatchLiteral(s, i, sub) # NoMatch

RECURSIVE CountFrom(_, _, _)
\* s.count(sub): the occurrences of sub from offset i on, not overlapping
CountFrom(s, sub, i) ==
    IF i + Len(sub) > Len(s) THEN 0
    ELSE IF MatchLiteral(s, i, sub) # NoMatch THEN 1 + CountFrom(s, sub, i + Len(sub))
    ELSE CountFrom(s, sub, i + 1)

RECURSIVE ScanParens(_, _, _)
\* the for loop of _check_balanced_parens from offset i with count so far:
\* the offset of the ')' that made count negative, and count after the loop
ScanParens(sql, i, count) ==
    IF i >= Len(sql) THEN [broke |-> FALSE, at |-> i, count |-> count]
    ELSE IF Ch(sql, i) = ")" /\ count = 0 THEN [broke |-> TRUE, at |-> i, count |-> 0 - 1]
    ELSE ScanParens(sql, i + 1,
                    IF Ch(sql, i) = "(" THEN count + 1
                    ELSE IF Ch(sql, i) = ")" THEN count - 1
                    ELSE count)

\* _check_balanced_parens testing count != 0 after the loop
ParenIssuesNonZero(scan) ==
    (IF scan.broke
     THEN <<ValidationIssue("ERROR", "Unbalanced parentheses: extra closing parenthesis",
                            scan.at)>>
     ELSE <<>>)
    \o
    (IF scan.count # 0
     THEN <<ValidationIssue("ERROR", "Unbalanced parentheses: unclosed", scan.count)>>
     ELSE <<>>)

\* the issues of _check_balanced_parens for the outcome of its loop
ParenIssues(scan) ==
    (IF scan.broke
     THEN <<ValidationIssue("ERROR", "Unbalanced parentheses: extra closing parenthesis",
                            scan.at)>>
     ELSE <<>>)
    \o
    (IF scan.count > 0
     THEN <<ValidationIssue("ERROR", "Unbalanced parentheses: unclosed", scan.count)>>
     ELSE <<>>)

\* SqlValidator._check_balanced_parens
CheckBalancedParens(sql) == ParenIssues(ScanParens(sql, 0, 0))

\* SqlValidator._check_balanced_quotes
CheckBalancedQuotes(sql) ==
    (IF (CountFrom(sql, <<"'">>, 0) - CountFrom(sql, <<"\\", "'">>, 0) * 2) % 2 # 0
     THEN <<ValidationIssue("ERROR", "Unbalanced single quotes", 0)>>
     ELSE <<>>)
    \o
    (IF (CountFrom(sql, <<"\"">>, 0) - CountFrom(sql, <<"\\", "\"">>, 0) * 2) % 2 # 0
     THEN <<ValidationIssue("ERROR", "Unbalanced double quotes", 0)>>
     ELSE <<>>)

\* re.search(r',\s*$', sql)
TrailingComma(sql) ==
    StripRight(sql) # <<>> /\ StripRight(sql)[Len(StripRight(sql))] = ","

\* the text t ends with the word w in any letter case, after a \b
EndsWithWord(t, w) ==
    /\ Len(t) >= Len(w)
    /\ Upper(SubSeq(t, Len(t) - Len(w) + 1, Len(t))) = w
    /\ Len(t) > Len(w) => t[Len(t) - Len(w)] \notin WordChars

\* re.search(r'\b(AND|OR)\s*$', sql, re.IGNORECASE)
TrailingAndOr(sql) ==
    \/ EndsWithWord(StripRight(sql), <<"A", "N", "D">>)
    \/ EndsWithWord(StripRight(sql), <<"O", "R">>)

\* SqlValidator._check_incomplete_statements
CheckIncompleteStatements(sql) ==
    (IF TrailingComma(sql)
     THEN <<ValidationIssue("ERROR", "Trailing comma at end of expression", 0)>>
     ELSE <<>>)
    \o
    (IF TrailingAndOr(sql)
     THEN <<ValidationIssue("ERROR", "Incomplete condition: trailing AND/OR", 0)>>
     ELSE <<>>)

\* NULL\b in any letter case at offset j
NullWordAt(sql, j) ==
    /\ j + 4 <= Len(sql)
    /\ Upper(Slice(sql, j, j + 4)) = <<"N", "U", "L", "L">>
    /\ j + 4 < Len(sql) => Ch(sql, j + 4) \notin WordChars

\* re.search(r'=\s*NULL\b', sql, re.IGNORECASE)
EqualsNull(sql) ==
    \E i \in 0..(Len(sql) - 1) :
        Ch(sql, i) = "=" /\ NullWordAt(sql, SkipIn(sql, i + 1, SpaceChars))

\* re.search(r'/\s*\d+\.?\d*', sql)
DividesByConstant(sql) ==
    \E i \in 0..(Len(sql) - 1) :
        /\ Ch(sql, i) = "/"
        /\ SkipIn(sql, i + 1, SpaceChars) < Len(sql)
        /\ Ch(sql, SkipIn(sql, i + 1, SpaceChars)) \in Digits

\* SqlValidator._check_common_mistakes
CheckCommonMistakes(sql) ==
    (IF EqualsNull(sql)
     THEN <<ValidationIssue("WARNING", "Using = NULL instead of IS NULL", 0)>>
     ELSE <<>>)
    \o
    (IF /\ Contains(sql, <<"/">>)
        /\ ~Contains(Upper(sql), <<"N", "U", "L", "L", "I", "F">>)
        /\ ~Contains(Upper(sql), <<"C", "A", "S", "E">>)
        /\ ~DividesByConstant(sql)
     THEN <<ValidationIssue("INFO", "Division detected - ensure denominator cannot be zero", 0)>>
     ELSE <<>>)
    \o
    (IF Contains(sql, <<"-", "-">>) /\ ~Contains(sql, <<"\n">>)
     THEN <<ValidationIssue("WARNING", "Line comment (--) may hide part of the expression", 0)>>
     ELSE <<>>)

\* SqlValidator._validate_syntax
ValidateSyntax(sql) ==
    IF Strip(sql) = <<>>
    THEN <<ValidationIssue("ERROR", "Empty SQL expression", 0)>>
    ELSE CheckBalancedParens(sql) \o CheckBalancedQuotes(sql)
             \o CheckIncompleteStatements(sql) \o CheckCommonMistakes(sql)

\* SqlValidator._validate_schema
ValidateSchema(sql) == <<>>

\* is_valid = not any(i.level == ValidationLevel.ERROR for i in issues),
\* mistaken for "there are no issues"
IsValidWhenNoIssue(issues) == issues = <<>>

\* is_valid = not any(i.level == ValidationLevel.ERROR for i in issues)
IsValid(issues) == ~\E i \in DOMAIN issues : issues[i].level = "ERROR"

ValidationResult(issues, sql_normalized, execution_result) ==
    [is_valid |-> IsValid(issues), issues |-> issues,
     sql_normalized |-> sql_normalized, execution_result |-> execution_result]

\* SqlValidator._test_execute with a client; backend is what
\* snowflake_client.execute_query does: it returns rows or raises
TestExecute(backend) ==
    IF backend.raises
    THEN [result |-> "None", error |-> backend.message]
    ELSE [result |-> "rows", error |-> ""]

\* the execution test of SqlValidator.validate: the issues it appends and
\* the execution result
ExecutionIssues(exec_result) ==
    IF exec_result.error # ""
    THEN <<ValidationIssue("ERROR", "Execution failed", exec_result.error)>>
    ELSE <<>>

\* SqlValidator.validate(sql, check_syntax, check_schema, execute) of a
\* validator whose snowflake_client is set iff has_client
Validate(has_client, backend, sql, check_syntax, check_schema, execute) ==
    ValidationResult(
        (IF check_syntax THEN ValidateSyntax(NormalizeSql(sql)) ELSE <<>>)
            \o (IF check_schema /\ has_client THEN ValidateSchema(NormalizeSql(sql)) ELSE <<>>)
            \o (IF execute /\ has_client THEN ExecutionIssues(TestExecute(backend)) ELSE <<>>),
        NormalizeSql(sql),
        IF execute /\ has_client THEN TestExecute(backend).result ELSE "None")

\* SqlValidator.validate_expression
ValidateExpression(sql_expr) ==
    ValidationResult(
        (IF Strip(sql_expr) = <<>>
         THEN <<ValidationIssue("ERROR", "Empty expression", 0)>>
         ELSE <<>>)
            \o CheckBalancedParens(sql_expr) \o CheckCommonMistakes(sql_expr),
        Strip(sql_expr),
        "None")

(***************************************************************************)
(* cortex_llm.py: CortexLLMTranslator.  An Optional[str] is a record with  *)
(* some = FALSE for None; texts are sequences of characters.               *)
(***************************************************************************)
NoneStr == [some |-> FALSE, text |-> <<>>]

SomeStr(text) == [some |-> TRUE, text |-> text]

\* CortexTranslationResult; model_used is the model of the translator
CortexTranslationResult(sql, success, error) ==
    [sql |-> sql, success |-> success, error |-> error]

\* s.endswith(suffix)
EndsWith(s, suffix) ==
    Len(s) >= Len(suffix) /\ SubSeq(s, Len(s) - Len(suffix) + 1, Len(s)) = suffix

\* the character U+0060 of a markdown fence, which a TLA+ string cannot hold
Backtick == "U+0060"

Fence == <<Backtick, Backtick, Backtick>>

SqlFence == Fence \o <<"s", "q", "l">>

\* the keywords of a line that looks like SQL
SqlLineKeywords ==
    { <<"S", "E", "L", "E", "C", "T">>,
      <<"S", "U", "M">>,
      <<"A", "V", "G">>,
      <<"C", "O", "U", "N", "T">>,
      <<"C", "A", "S", "E">>,
      <<"W", "H", "E", "N">>,
      <<"F", "R", "O", "M">>,
      <<"W", "H", "E", "R", "E">>,
      <<"J", "O", "I", "N">>,
      <<"G", "R", "O", "U", "P">>,
      <<"O", "R", "D", "E", "R">>,
      <<"D", "A", "T", "E", "A", "D", "D">>,
      <<"C", "O", "A", "L", "E", "S", "C", "E">>,
      <<"(">>,
      <<")">> }

RECURSIVE SplitLines(_, _)
\* cur followed by s, split at every "\n"
SplitLines(s, cur) ==
    IF s = <<>> THEN <<cur>>
    ELSE IF Head(s) = "\n" THEN <<cur>> \o SplitLines(Tail(s), <<>>)
    ELSE SplitLines(Tail(s), Append(cur, Head(s)))

\* a line _extract_sql skips: a comment, an explanation or a note
SkippedLine(line) ==
    \/ StartsWith(Strip(line), <<"#">>)
    \/ StartsWith(Strip(line), <<"/", "/">>)
    \/ Contains(Lower(line), <<"e", "x", "p", "l", "a", "n", "a", "t", "i", "o", "n">>)
    \/ Contains(Lower(line), <<"n", "o", "t", "e", ":">>)

LooksLikeSql(line) == \E kw \in SqlLineKeywords : Contains(Upper(line), kw)

RECURSIVE SqlLines(_, _)
\* the loop of _extract_sql over the lines left, with its in_sql flag
SqlLines(lines, in_sql) ==
    IF lines = <<>> THEN <<>>
    ELSE IF SkippedLine(Head(lines)) THEN SqlLines(Tail(lines), in_sql)
    ELSE IF in_sql \/ LooksLikeSql(Head(lines)) \/ Strip(Head(lines)) # <<>>
    THEN <<Head(lines)>> \o SqlLines(Tail(lines), in_sql \/ LooksLikeSql(Head(lines)))
    ELSE SqlLines(Tail(lines), in_sql)

\* the response without its leading markdown fence
DropLeadingFence(response) ==
    IF StartsWith(response, SqlFence) THEN SubSeq(response, 7, Len(response))
    ELSE IF StartsWith(response, Fence) THEN SubSeq(response, 4, Len(response))
    ELSE response

\* the response without its trailing markdown fence
DropTrailingFence(response) ==
    IF EndsWith(response, Fence) THEN SubSeq(response, 1, Len(response) - 3)
    ELSE response

\* the end of _extract_sql: '\n'.join(sql_lines).strip() or response
ExtractedOr(joined, response) == IF joined # <<>> THEN joined ELSE response

\* _extract_sql once the fences are removed
ExtractFrom(response) ==
    ExtractedOr(Strip(JoinLines(SqlLines(SplitLines(response, <<>>), FALSE))), response)

\* CortexLLMTranslator._extract_sql
ExtractSql(response) ==
    ExtractFrom(Strip(DropTrailingFence(DropLeadingFence(Strip(response)))))

\* CortexLLMTranslator._call_cortex and the _extract_sql that follows it in
\* the try block: reply is what client.execute_sql does with the query
CallCortex(reply) ==
    IF reply.kind = "raises"
    THEN [raised |-> TRUE, error |-> reply.message, sql |-> <<>>]
    ELSE IF reply.kind \in {"none", "empty"}
    THEN [raised |-> TRUE, error |-> "No response from Cortex", sql |-> <<>>]
    ELSE IF reply.kind = "row_without_response"
    THEN [raised |-> FALSE, error |-> "", sql |-> ExtractSql(<<>>)]
    ELSE IF reply.kind = "row_with_none"
    THEN [raised |-> TRUE, error |-> "'NoneType' object has no attribute 'strip'",
          sql |-> <<>>]
    ELSE [raised |-> FALSE, error |-> "", sql |-> ExtractSql(reply.response)]

\* initial_sql or "", with every failure answered by the empty string
FallbackSqlEmpty(initial_sql) == <<>>

\* initial_sql or ""
FallbackSql(initial_sql) == IF initial_sql.some THEN initial_sql.text ELSE <<>>

\* the try block of translate_dax and enhance_translation with its handler:
\* called is the outcome of the Cortex call, fallback the SQL kept on failure
CortexOutcome(called, fallback) ==
    IF called.raised
    THEN CortexTranslationResult(fallback, FALSE, SomeStr(called.error))
    ELSE CortexTranslationResult(called.sql, TRUE, NoneStr)

\* CortexLLMTranslator.translate_dax(dax, context, initial_sql, patterns_context)
TranslateDax(reply, initial_sql) == CortexOutcome(CallCortex(reply), FallbackSql(initial_sql))

\* CortexLLMTranslator.enhance_translation(dax, pattern_sql, confidence, warnings)
EnhanceTranslation(reply, pattern_sql) == CortexOutcome(CallCortex(reply), pattern_sql)

(***************************************************************************)
(* patterns.py: PatternLibrary, with the patterns the translations below   *)
(* call on.                                                                *)
(***************************************************************************)
DaxPattern(dax_function, requires_context) ==
    [dax_function |-> dax_function, requires_context |-> requires_context]

\* PatternLibrary._patterns after _load_patterns: the values, each under
\* the key dax_function.upper()
PatternLibrary ==
    { DaxPattern(<<"S", "U", "M">>, FALSE),
      DaxPattern(<<"C", "O", "U", "N", "T", "R", "O", "W", "S">>, FALSE),
      DaxPattern(<<"C", "A", "L", "C", "U", "L", "A", "T", "E">>, TRUE),
      DaxPattern(<<"R", "E", "L", "A", "T", "E", "D">>, TRUE) }

\* PatternLibrary.get_pattern looking the name up as it is written
GetPatternExact(function_name) ==
    {p \in PatternLibrary : p.dax_function = function_name}

\* PatternLibrary.get_pattern: the set of the pattern found, empty for None
GetPattern(function_name) ==
    {p \in PatternLibrary : Upper(p.dax_function) = Upper(function_name)}

\* PatternLibrary.has_pattern
HasPattern(function_name) == GetPattern(function_name) # {}

(***************************************************************************)
(* context.py: the tables of a SchemaContext and the lookups of names.     *)
(* A dict is the list of its items in insertion order.                     *)
(***************************************************************************)
Column(name, dax_name, data_type, is_key) ==
    [name |-> name, dax_name |-> dax_name, data_type |-> data_type, is_key |-> is_key]

Table(name, dax_name, columns, primary_key) ==
    [name |-> name, dax_name |-> dax_name, columns |-> columns, primary_key |-> primary_key]

\* key in d
DictHas(d, key) == \E i \in DOMAIN d : d[i].key = key

\* d[key]
DictGet(d, key) == d[CHOOSE i \in DOMAIN d : d[i].key = key].value

\* d[key] = value
DictSet(d, key, value) ==
    IF DictHas(d, key)
    THEN [i \in DOMAIN d |-> IF d[i].key = key THEN [key |-> key, value |-> value] ELSE d[i]]
    ELSE Append(d, [key |-> key, value |-> value])

\* SchemaContext.__init__: the tables and the two name mappings
NewSchemaContext ==
    [tables |-> <<>>, dax_to_sql_table |-> <<>>, sql_to_dax_table |-> <<>>]

\* Table.effective_dax_name
EffectiveDaxName(table) ==
    IF table.dax_name.some /\ table.dax_name.text # <<>> THEN table.dax_name.text
    ELSE table.name

\* SchemaContext.add_table
AddTable(ctx, table) ==
    [tables |-> DictSet(ctx.tables, Lower(table.name), table),
     dax_to_sql_table |-> DictSet(ctx.dax_to_sql_table, Lower(EffectiveDaxName(table)),
                                  Lower(table.name)),
     sql_to_dax_table |-> DictSet(ctx.sql_to_dax_table, Lower(table.name),
                                  Lower(EffectiveDaxName(table)))]

\* the sales table of create_sample_retail_context, with three of its columns
CreateSampleRetailContext ==
    AddTable(NewSchemaContext,
             Table(<<"s", "a", "l", "e", "s">>, SomeStr(<<"S", "a", "l", "e", "s">>),
                   << Column(<<"s", "a", "l", "e", "_", "i", "d">>, NoneStr, "INTEGER", TRUE),
                      Column(<<"q", "u", "a", "n", "t", "i", "t", "y">>,
                             SomeStr(<<"Q", "u", "a", "n", "t", "i", "t", "y">>),
                             "INTEGER", FALSE),
                      Column(<<"a", "m", "o", "u", "n", "t">>,
                             SomeStr(<<"A", "m", "o", "u", "n", "t">>), "DECIMAL", FALSE) >>,
                   << <<"s", "a", "l", "e", "_", "i", "d">> >>))

\* SchemaContext.get_sql_table_name: the set of the name found, empty for None
GetSqlTableName(ctx, dax_name) ==
    IF DictHas(ctx.dax_to_sql_table, Lower(dax_name))
    THEN {DictGet(ctx.dax_to_sql_table, Lower(dax_name))}
    ELSE {}

\* SchemaContext.get_table: the set of the table found, empty for None
GetTable(ctx, name) ==
    IF DictHas(ctx.tables, Lower(name)) THEN {DictGet(ctx.tables, Lower(name))}
    ELSE {DictGet(ctx.tables, sql_name) :
             sql_name \in {n \in GetSqlTableName(ctx, name) :
                              n # <<>> /\ DictHas(ctx.tables, n)}}

\* Table.get_column: the columns that match, the first of which is returned
GetColumn(table, name) ==
    SelectSeq(table.columns,
              LAMBDA col : \/ Lower(col.name) = Lower(name)
                           \/ /\ col.dax_name.some
                              /\ col.dax_name.text # <<>>
                              /\ Lower(col.dax_name.text) = Lower(name))

\* SchemaContext.get_sql_column_name: the set of the name found, empty for None
GetSqlColumnName(ctx, table_name, column_name) ==
    {GetColumn(t, column_name)[1].name :
        t \in {u \in GetTable(ctx, table_name) : GetColumn(u, column_name) # <<>>}}

(***************************************************************************)
(* context.py: to_dict / to_json and from_dict / from_json.  A Python dict *)
(* with fixed keys is a record; an enum member is written by its name; a   *)
(* JSON text is the tree of the JSON values it denotes.                    *)
(***************************************************************************)
\* ColumnType: the value of each member
ColumnType ==
    [STRING |-> "string", INTEGER |-> "integer", FLOAT |-> "float", DECIMAL |-> "decimal",
     DATE |-> "date", DATETIME |-> "datetime", BOOLEAN |-> "boolean", UNKNOWN |-> "unknown"]

\* ColumnType(value): the member of a value
ColumnTypeOf(value) == CHOOSE member \in DOMAIN ColumnType : ColumnType[member] = value

\* Column.to_dict
ColumnToDict(column) ==
    [name |-> column.name, dax_name |-> column.dax_name,
     data_type |-> ColumnType[column.data_type], is_key |-> column.is_key]

\* Table.to_dict
TableToDict(table) ==
    [name |-> table.name, dax_name |-> table.dax_name,
     columns |-> [i \in DOMAIN table.columns |-> ColumnToDict(table.columns[i])],
     primary_key |-> table.primary_key]

\* TableRelationship.to_dict
RelationshipToDict(rel) ==
    [from_table |-> rel.from_table, from_column |-> rel.from_column,
     to_table |-> rel.to_table, to_column |-> rel.to_column,
     relationship_type |-> rel.relationship_type, cross_filter |-> rel.cross_filter,
     is_active |-> rel.is_active]

\* SchemaContext.to_dict of the context with tables ctx and relationships rels
ToDict(ctx, rels) ==
    [tables |-> [i \in DOMAIN ctx.tables |->
                    [key |-> ctx.tables[i].key, value |-> TableToDict(ctx.tables[i].value)]],
     relationships |-> [i \in DOMAIN rels |-> RelationshipToDict(rels[i])]]

\* from_dict: the Column of an item of "columns"
ColumnFromDict(c) == Column(c.name, c.dax_name, ColumnTypeOf(c.data_type), c.is_key)

\* from_dict: the Table of an item of "tables"
TableFromDict(table_data) ==
    Table(table_data.name, table_data.dax_name,
          [i \in DOMAIN table_data.columns |-> ColumnFromDict(table_data.columns[i])],
          table_data.primary_key)

\* from_dict: the TableRelationship of an item of "relationships"
RelationshipFromDict(rel_data) ==
    [from_table |-> rel_data.from_table, from_column |-> rel_data.from_column,
     to_table |-> rel_data.to_table, to_column |-> rel_data.to_column,
     relationship_type |-> rel_data.relationship_type,
     cross_filter |-> rel_data.cross_filter, is_active |-> rel_data.is_active]

RECURSIVE AddTablesFromDict(_, _)
\* from_dict: the loop over data["tables"].items() that calls ctx.add_table
AddTablesFromDict(items, ctx) ==
    IF items = <<>> THEN ctx
    ELSE AddTablesFromDict(Tail(items), AddTable(ctx, TableFromDict(Head(items).value)))

\* SchemaContext.from_dict: the new context, its relationships and filter context
FromDict(data) ==
    [schema |-> AddTablesFromDict(data.tables, NewSchemaContext),
     relationships |-> [i \in DOMAIN data.relationships |->
                           RelationshipFromDict(data.relationships[i])],
     filter_context |-> NewFilterContext]

\* json.dumps of a str or None
JsonOptional(s) ==
    IF s.some THEN [json |-> "string", text |-> s.text] ELSE [json |-> "null", text |-> <<>>]

\* json.loads of a string or null
OptionalOfJson(j) == IF j.json = "null" THEN NoneStr ELSE SomeStr(j.text)

\* json.dumps of a bool
JsonBool(b) == IF b THEN "true" ELSE "false"

\* json.loads of true or false
BoolOfJson(j) == j = "true"

\* json.dumps of a str
JsonString(text) == [json |-> "string", text |-> text]

\* json.dumps of the dict of a table
JsonTable(t) ==
    [name |-> JsonString(t.name), dax_name |-> JsonOptional(t.dax_name),
     columns |-> [i \in DOMAIN t.columns |->
                     [name |-> JsonString(t.columns[i].name),
                      dax_name |-> JsonOptional(t.columns[i].dax_name),
                      data_type |-> JsonString(t.columns[i].data_type),
                      is_key |-> JsonBool(t.columns[i].is_key)]],
     primary_key |-> [i \in DOMAIN t.primary_key |-> JsonString(t.primary_key[i])]]

\* json.loads of the object of a table
TableOfJson(j) ==
    [name |-> j.name.text, dax_name |-> OptionalOfJson(j.dax_name),
     columns |-> [i \in DOMAIN j.columns |->
                     [name |-> j.columns[i].name.text,
                      dax_name |-> OptionalOfJson(j.columns[i].dax_name),
                      data_type |-> j.columns[i].data_type.text,
                      is_key |-> BoolOfJson(j.columns[i].is_key)]],
     primary_key |-> [i \in DOMAIN j.primary_key |-> j.primary_key[i].text]]

\* json.dumps of the dict of a relationship
JsonRelationship(r) ==
    [from_table |-> JsonString(r.from_table), from_column |-> JsonString(r.from_column),
     to_table |-> JsonString(r.to_table), to_column |-> JsonString(r.to_column),
     relationship_type |-> JsonString(r.relationship_type),
     cross_filter |-> JsonString(r.cross_filter), is_active |-> JsonBool(r.is_active)]

\* json.loads of the object of a relationship
RelationshipOfJson(j) ==
    [from_table |-> j.from_table.text, from_column |-> j.from_column.text,
     to_table |-> j.to_table.text, to_column |-> j.to_column.text,
     relationship_type |-> j.relationship_type.text,
     cross_filter |-> j.cross_filter.text, is_active |-> BoolOfJson(j.is_active)]

\* json.dumps(data, indent=2): the members of an object keep the order of the dict
JsonDumps(data) ==
    [tables |-> [i \in DOMAIN data.tables |->
                    [key |-> JsonString(data.tables[i].key),
                     value |-> JsonTable(data.tables[i].value)]],
     relationships |-> [i \in DOMAIN data.relationships |->
                           JsonRelationship(data.relationships[i])]]

\* json.loads(json_str)
JsonLoads(json_str) ==
    [tables |-> [i \in DOMAIN json_str.tables |->
                    [key |-> json_str.tables[i].key.text,
                     value |-> TableOfJson(json_str.tables[i].value)]],
     relationships |-> [i \in DOMAIN json_str.relationships |->
                           RelationshipOfJson(json_str.relationships[i])]]

\* SchemaContext.to_json
ToJson(ctx, rels) == JsonDumps(ToDict(ctx, rels))

\* SchemaContext.from_json
FromJson(json_str) == FromDict(JsonLoads(json_str))

(***************************************************************************)
(* DaxTranslator.translate, as far as it touches the filter context of its *)
(* SchemaContext: the filter context is reset when a call starts, changed  *)
(* while the call walks CALCULATE-like clauses, and read when the call      *)
(* builds its WHERE clause.  own is what the call itself has done since it *)
(* started, seen the effective filters it read.                            *)
(***************************************************************************)
\* the translate calls that share the SchemaContext
TranslateCalls == {"call1", "call2"}

IdleTranslation ==
    [pc |-> "idle", own |-> NewFilterContext, seen |-> <<>>, steps |-> 0]

(***************************************************************************)
(* DaxTranslator.translate: the walk of the tree that gives the confidence *)
(* and the warnings of a translation.  context is the SchemaContext given  *)
(* or none; guess is the confidence left by a name that is not resolved.   *)
(***************************************************************************)
NoContext == [some |-> FALSE, ctx |-> NewSchemaContext]

SomeContext(ctx) == [some |-> TRUE, ctx |-> ctx]

\* TranslationConfidence: HIGH, MEDIUM, LOW by their order
ConfidenceRank == [HIGH |-> 3, MEDIUM |-> 2, LOW |-> 1]

MinConfidence(a, b) == IF ConfidenceRank[a] <= ConfidenceRank[b] THEN a ELSE b

\* what the walk of a subtree gives
Walked(confidence, warnings, patterns) ==
    [confidence |-> confidence, warnings |-> warnings, patterns |-> patterns]

TranslationWarning(kind, name) == [kind |-> kind, name |-> name]

\* the walk of two subtrees together
Combine(a, b) ==
    Walked(MinConfidence(a.confidence, b.confidence), a.warnings \o b.warnings,
           a.patterns \o b.patterns)

\* a column or table reference, resolved by the context or guessed
WalkReference(resolved, guess, name) ==
    IF resolved THEN Walked("HIGH", <<>>, <<>>)
    ELSE Walked(guess, <<TranslationWarning("unresolved", name)>>, <<>>)

\* a function call by itself: a pattern of the library, or a best effort
WalkFunction(function_name, found, context) ==
    IF found = {} THEN Walked("LOW", <<TranslationWarning("unknown_function", function_name)>>,
                              <<>>)
    ELSE IF (\E p \in found : p.requires_context) /\ ~context.some
    THEN Walked("MEDIUM", <<TranslationWarning("context_required", function_name)>>,
                <<Upper(function_name)>>)
    ELSE Walked("HIGH", <<>>, <<Upper(function_name)>>)

RECURSIVE Walk(_, _, _)
RECURSIVE WalkAll(_, _, _)
\* the walk of the arguments of a call
WalkAll(arguments, context, guess) ==
    IF arguments = <<>> THEN Walked("HIGH", <<>>, <<>>)
    ELSE Combine(Walk(Head(arguments), context, guess),
                 WalkAll(Tail(arguments), context, guess))

\* the walk of a node, bottom-up
Walk(node, context, guess) ==
    IF node.type = "column"
    THEN WalkReference(/\ context.some
                       /\ node.has_table
                       /\ GetSqlColumnName(context.ctx, node.table_name,
                                           node.column_name) # {},
                       guess, node.column_name)
    ELSE IF node.type = "table"
    THEN WalkReference(context.some /\ GetTable(context.ctx, node.table_name) # {},
                       guess, node.table_name)
    ELSE IF node.type = "function"
    THEN Combine(WalkFunction(node.function_name, GetPattern(node.function_name), context),
                 WalkAll(node.arguments, context, guess))
    ELSE IF node.type = "binary_op"
    THEN Combine(Walk(node.left, context, guess), Walk(node.right, context, guess))
    ELSE IF node.type = "unary_op" THEN Walk(node.operand, context, guess)
    ELSE IF node.type = "measure" THEN Walk(node.expression, context, guess)
    ELSE Walked("HIGH", <<>>, <<>>)

\* TranslationResult, without the SQL text
TranslationResult(success, walked, errors) ==
    [success |-> success, confidence |-> walked.confidence, warnings |-> walked.warnings,
     patterns_applied |-> Range(walked.patterns), errors |-> errors]

\* translate once the parser has given parsed
TranslateParsed(parsed, context, guess) ==
    IF parsed.st # "return" THEN [st |-> "raise", raised |-> parsed.raised]
    ELSE IF ~Success(parsed.result)
    THEN [st |-> "return", ast |-> parsed.result.ast,
          result |-> TranslationResult(FALSE, Walked("LOW", <<>>, <<>>),
                                       parsed.result.errors)]
    ELSE [st |-> "return", ast |-> parsed.result.ast,
          result |-> TranslationResult(TRUE, Walk(parsed.result.ast, context, guess), <<>>)]

\* DaxTranslator.translate(source, context)
Translate(source, context, guess) ==
    TranslateParsed(Parse(NewParser, source), context, guess)

(***************************************************************************)
(* The state: the text a caller has typed, one DaxParser object and one    *)
(* DaxLexer object with the outcome of the last call made on each.         *)
(***************************************************************************)
VARIABLES
    input,        \* the source text typed so far
    chain,        \* what was typed, item by item
    sep,          \* the separator typed between the tokens of an operator chain
    parser,       \* the DaxParser object
    outcome,      \* the outcome of the last parse / parse_measure call
    lexer,        \* <<>> or <<the DaxLexer object>>
    lexOutcome,   \* the outcome of the last tokenize call
    lexCalls,     \* the number of tokenize calls made on the lexer object
    relationships,\* SchemaContext.relationships
    joinResult,   \* the outcome of the last get_join_path call
    filterContext,\* a FilterContext object
    filterCalls,  \* the add_filter and remove_filter calls made on it, in order
    filterResult, \* the outcome of the last get_effective_filters / to_where_clause call
    translations, \* the translate calls that use the one SchemaContext
    valResult,    \* the outcome of the last validate / validate_expression call
    cortexResult, \* the outcome of the last translate_dax / enhance_translation call
    translated,   \* the outcome of the last translate call
    joinsResult,  \* the outcome of the last generate_joins call
    schema,       \* SchemaContext.tables and the two name mappings
    tableCalls,   \* the number of add_table calls made on the context
    restored,     \* the outcome of the last from_json / from_dict call
    reuse,        \* the list objects of a parser that is called again, and its results
    library       \* the module global _default_library and the threads that ask for it

inputVars == <<input, chain, sep>>

parserVars == <<parser, outcome>>

lexerVars == <<lexer, lexOutcome, lexCalls>>

contextVars == <<relationships, joinResult>>

filterVars == <<filterContext, filterCalls, filterResult>>

\* the filter context, the validator and the translators
serviceVars == <<filterVars, translations, valResult, cortexResult, translated>>

\* the registries of a schema context and the pattern library
registryVars == <<schema, tableCalls, restored>>

objectVars == <<reuse, library>>

schemaVars == <<joinsResult, registryVars, objectVars>>

\* the state of the components besides the lexer, the parser and the relationships
engineVars == <<serviceVars, schemaVars>>

\* what the calls on a FilterContext object leave alone
nonFilterVars ==
    <<inputVars, parserVars, lexerVars, contextVars, translations, valResult, cortexResult,
      translated, schemaVars>>

\* what a translate call leaves alone, besides filterCalls and filterResult
nonTranslateVars ==
    <<inputVars, parserVars, lexerVars, contextVars, valResult, cortexResult, translated,
      schemaVars>>

\* what a validator call leaves alone, besides the text typed
nonValidatorVars ==
    <<parserVars, lexerVars, contextVars, filterVars, translations, cortexResult, translated,
      schemaVars>>

\* what a call on the Cortex translator leaves alone, besides the text typed
nonCortexVars ==
    <<parserVars, lexerVars, contextVars, filterVars, translations, valResult, translated,
      schemaVars>>

\* what a translate call leaves alone, besides the text typed and the filter context
nonConfidenceVars ==
    <<parserVars, lexerVars, contextVars, filterVars, translations, valResult, cortexResult,
      schemaVars>>

vars == <<input, chain, sep, parser, outcome, lexer, lexOutcome, lexCalls,
          relationships, joinResult, engineVars>>

NoOutcome == [st |-> "none"]

\* the threads that call get_pattern_library
Threads == {"thread1", "thread2"}

\* patterns.py after import: _default_library = None (0), no PatternLibrary
\* made, and no thread inside get_pattern_library
ModuleLoaded ==
    [default |-> 0, made |-> 0,
     threads |-> [t \in Threads |-> [pc |-> "idle", instance |-> 0, got |-> <<>>]]]

\* DaxParser.__init__: the list objects self.tokens and self.errors are bound
\* to, by their place in heap, and the ParseResults returned so far
NewObjects ==
    [heap |-> << <<>>, <<>> >>, tokens |-> 1, errors |-> 2, held |-> <<>>, calls |-> 0]

\* the state of those components after construction
EngineInit ==
    /\ filterContext = NewFilterContext
    /\ filterCalls = <<>>
    /\ filterResult = NoOutcome
    /\ translations = [c \in TranslateCalls |-> IdleTranslation]
    /\ valResult = NoOutcome
    /\ cortexResult = NoOutcome
    /\ translated = NoOutcome
    /\ joinsResult = NoOutcome
    /\ schema = NewSchemaContext
    /\ tableCalls = 0
    /\ restored = NoOutcome
    /\ reuse = NewObjects
    /\ library = ModuleLoaded

\* the longest source typed, in pieces
MaxPieces == 3

\* the most binary operators in a typed operator chain
MaxOps == 2

\* the most tokenize calls on one lexer object
MaxCalls == 2

\* the pieces of source text a caller types
Pieces == { <<"1">>, <<"e">>, <<"$">>, <<"(">>, <<")">>, <<"-">>, <<" ">>, <<"\n">>,
            <<"B", "L", "A", "N", "K">>, <<"[", "m", "]", "=">>,
            <<"/", "*", "c", "*", "/">> }

\* whitespace, newline and comment, as typed between the tokens of a chain
Separators == { <<" ">>, <<"\n">>, <<" ", "/", "*", "c", "*", "/", " ">> }

\* the operands of a chain, by position
OperandNames == <<"a", "b", "c", "d", "f", "g">>

\* the lexeme of every binary operator, by BinaryOperator
BinaryLexemes ==
    [OR |-> <<"|", "|">>, AND |-> <<"&", "&">>, EQUALS |-> <<"=">>,
     NOT_EQUALS |-> <<"<", ">">>, LESS_THAN |-> <<"<">>, LESS_EQUAL |-> <<"<", "=">>,
     GREATER_THAN |-> <<">">>, GREATER_EQUAL |-> <<">", "=">>, ADD |-> <<"+">>,
     SUBTRACT |-> <<"-">>, AMPERSAND |-> <<"&">>, MULTIPLY |-> <<"*">>,
     DIVIDE |-> <<"/">>, POWER |-> <<"^">>]

\* the lexeme of every prefix operator, by UnaryOperator
UnaryLexemes == [NEGATE |-> <<"-">>, NOT |-> <<"N", "O", "T">>]

Item(kind, text) == [kind |-> kind, text |-> text]

Operands(c) == SelectSeq(c, LAMBDA it : it.kind = "operand")

Operators(c) == SelectSeq(c, LAMBDA it : it.kind = "binary")

InitIdle ==
    /\ input = <<>>
    /\ chain = <<>>
    /\ sep = <<" ">>
    /\ parser = NewParser
    /\ outcome = NoOutcome
    /\ lexer = <<>>
    /\ lexOutcome = NoOutcome
    /\ lexCalls = 0
    /\ relationships = <<>>
    /\ joinResult = NoOutcome
    /\ EngineInit

Idle == outcome = NoOutcome /\ lexer = <<>>

\* what the caller of an entry point observes
CallOutcome(method, r) ==
    IF r.st = "return"
    THEN [st |-> "return", method |-> method, result |-> r.result, raised |-> r.raised]
    ELSE [st |-> "raise", method |-> method, exc |-> r.exc, raised |-> r.raised]

\* the caller types one more piece of free text
TypePiece(piece) ==
    /\ Idle
    /\ Len(chain) < MaxPieces
    /\ input' = input \o piece
    /\ chain' = Append(chain, Item("piece", piece))
    /\ UNCHANGED <<sep, parserVars, lexerVars, contextVars, engineVars>>

\* parser.parse(input)
CallParse ==
    /\ Idle
    /\ LET r == Parse(parser, input)
       IN /\ parser' = r.parser
          /\ outcome' = CallOutcome("parse", r)
    /\ UNCHANGED <<inputVars, lexerVars, contextVars, engineVars>>

\* parser.parse_measure(input)
CallParseMeasure ==
    /\ Idle
    /\ LET r == ParseMeasure(parser, input)
       IN /\ parser' = r.parser
          /\ outcome' = CallOutcome("parse_measure", r)
    /\ UNCHANGED <<inputVars, lexerVars, contextVars, engineVars>>

Init == InitIdle

Next ==
    \/ \E piece \in Pieces : TypePiece(piece)
    \/ CallParse
    \/ CallParseMeasure

\* free text handed to the two entry points of one parser
Spec == Init /\ [][Next]_vars

(***************************************************************************)
(* Operator chains: the caller types an unparenthesised expression         *)
(*   [prefix] operand (binary-operator operand)*                           *)
(* with one separator between its tokens, and hands it to parse.           *)
(***************************************************************************)
Prefixes == {"none"} \cup DOMAIN UnaryLexemes

\* the first operand, after an optional prefix operator
TypeFirst(prefix) ==
    /\ Idle
    /\ chain = <<>>
    /\ input' = (IF prefix = "none" THEN <<>> ELSE UnaryLexemes[prefix] \o sep)
                    \o <<OperandNames[1]>>
    /\ chain' = (IF prefix = "none" THEN <<>> ELSE <<Item("unary", prefix)>>)
                    \o <<Item("operand", <<OperandNames[1]>>)>>
    /\ UNCHANGED <<sep, parserVars, lexerVars, contextVars, engineVars>>

\* one more binary operator and its right operand
TypeOperator(op) ==
    /\ Idle
    /\ chain # <<>>
    /\ Len(Operators(chain)) < MaxOps
    /\ LET name == <<OperandNames[Len(Operands(chain)) + 1]>>
       IN /\ input' = input \o sep \o BinaryLexemes[op] \o sep \o name
          /\ chain' = chain \o <<Item("binary", op), Item("operand", name)>>
    /\ UNCHANGED <<sep, parserVars, lexerVars, contextVars, engineVars>>

\* parser.parse(input) on a typed chain
ParseChain ==
    /\ chain # <<>>
    /\ CallParse

PrecInit ==
    /\ input = <<>>
    /\ chain = <<>>
    /\ sep \in Separators
    /\ parser = NewParser
    /\ outcome = NoOutcome
    /\ lexer = <<>>
    /\ lexOutcome = NoOutcome
    /\ lexCalls = 0
    /\ relationships = <<>>
    /\ joinResult = NoOutcome
    /\ EngineInit

PrecNext ==
    \/ \E prefix \in Prefixes : TypeFirst(prefix)
    \/ \E op \in DOMAIN BinaryLexemes : TypeOperator(op)
    \/ ParseChain

\* operator chains handed to parse
PrecSpec == PrecInit /\ [][PrecNext]_vars

(***************************************************************************)
(* One DaxLexer object, on which tokenize is called repeatedly.            *)
(***************************************************************************)
\* lexer = DaxLexer(input)
CreateLexer ==
    /\ Idle
    /\ lexer' = <<NewLexer(input)>>
    /\ UNCHANGED <<inputVars, parserVars, lexOutcome, lexCalls, contextVars, engineVars>>

\* lexer.tokenize()
CallTokenize ==
    /\ lexer # <<>>
    /\ lexCalls < MaxCalls
    /\ LET r == Tokenize(lexer[1])
       IN /\ lexer' = <<r.lexer>>
          /\ lexOutcome' = IF r.st = "ok"
                           THEN [st |-> "return", tokens |-> r.tokens]
                           ELSE [st |-> "raise", exc |-> r.error]
    /\ lexCalls' = lexCalls + 1
    /\ UNCHANGED <<inputVars, parserVars, contextVars, engineVars>>

LexNext ==
    \/ \E piece \in Pieces : TypePiece(piece)
    \/ CreateLexer
    \/ CallTokenize

\* free text handed to one lexer object
LexSpec == Init /\ [][LexNext]_vars

(***************************************************************************)
(* Properties of the parser entry points.                                  *)
(***************************************************************************)
IsPlaceholder(ast) == ast.type = "literal" /\ ast.literal_type = "blank"

\* C1: parse and parse_measure never let an exception escape: every call
\* returns a ParseResult, and a lexer or parser failure is in its errors.
C1_NeverEscapes ==
    outcome.st # "none" =>
        /\ outcome.st = "return"
        /\ outcome.raised # "none" => Len(outcome.result.errors) > 0

\* C2: every typed chain is derivable from the expression grammar, with
\* whitespace, a newline or a comment between its tokens; parse returns no
\* errors and an AST that is not the error placeholder.
C2_GrammarValidParses ==
    (outcome.st # "none" /\ chain # <<>> /\ chain[1].kind # "piece") =>
        /\ outcome.st = "return"
        /\ outcome.result.errors = <<>>
        /\ ~IsPlaceholder(outcome.result.ast)

\* the binding level the claim gives every operator, loosest first
PrecedenceLevel ==
    [OR |-> 1, AND |-> 2, EQUALS |-> 3, NOT_EQUALS |-> 3, LESS_THAN |-> 4,
     LESS_EQUAL |-> 4, GREATER_THAN |-> 4, GREATER_EQUAL |-> 4, ADD |-> 5,
     SUBTRACT |-> 5, AMPERSAND |-> 5, MULTIPLY |-> 6, DIVIDE |-> 6,
     PREFIX |-> 7, POWER |-> 8, PRIMARY |-> 9]

NodeLevel(n) ==
    CASE n.type = "binary_op" -> PrecedenceLevel[n.operator]
      [] n.type = "unary_op" -> PrecedenceLevel["PREFIX"]
      [] OTHER -> PrecedenceLevel["PRIMARY"]

RECURSIVE Yield(_)
\* the operands and operators of a tree, left to right
Yield(n) ==
    CASE n.type = "binary_op" ->
            Yield(n.left) \o <<Item("binary", n.operator)>> \o Yield(n.right)
      [] n.type = "unary_op" -> <<Item("unary", n.operator)>> \o Yield(n.operand)
      [] n.type = "table" -> <<Item("operand", n.table_name)>>
      [] OTHER -> <<Item("other", <<>>)>>

\* a child of another level binds tighter than its parent
TighterChild(parent, child) ==
    NodeLevel(child) # NodeLevel(parent) => NodeLevel(child) > NodeLevel(parent)

RECURSIVE NestedByPrecedence(_)
NestedByPrecedence(n) ==
    CASE n.type = "binary_op" ->
            /\ TighterChild(n, n.left) /\ TighterChild(n, n.right)
            /\ NestedByPrecedence(n.left) /\ NestedByPrecedence(n.right)
      [] n.type = "unary_op" -> TighterChild(n, n.operand) /\ NestedByPrecedence(n.operand)
      [] OTHER -> TRUE

ParsedChain ==
    /\ chain # <<>> /\ chain[1].kind # "piece"
    /\ outcome.st = "return" /\ Success(outcome.result)

Leaf(k) == DaxTable(<<OperandNames[k]>>)

\* C3: in the tree parse builds for an unparenthesised chain, the operators
\* stand in the typed order and every operator of a tighter level is below
\* the looser one next to it: || < && < (= <>) < (< <= > >=) < (+ - &) <
\* (* /) < prefix (- NOT) < ^ < primary; so a + b * c is a + (b * c) and
\* - a ^ b negates the whole power.
C3_Precedence ==
    ParsedChain =>
        /\ Yield(outcome.result.ast) = chain
        /\ NestedByPrecedence(outcome.result.ast)
        /\ (chain = <<Item("unary", "NEGATE"), Item("operand", <<"a">>),
                      Item("binary", "POWER"), Item("operand", <<"b">>)>>
               => outcome.result.ast =
                      DaxUnaryOp("NEGATE", DaxBinaryOp(Leaf(1), "POWER", Leaf(2))))

\* a + b * c was parsed as a + (b * c)
C3_Witness ==
    /\ ParsedChain
    /\ Operators(chain) = <<Item("binary", "ADD"), Item("binary", "MULTIPLY")>>
    /\ outcome.result.ast =
           DaxBinaryOp(Leaf(1), "ADD", DaxBinaryOp(Leaf(2), "MULTIPLY", Leaf(3)))

SameLevelBinary(parent, child) ==
    child.type = "binary_op" /\ NodeLevel(child) = NodeLevel(parent)

RECURSIVE NestedByAssociativity(_)
\* a chain of one level leans left, except a chain of ^, which leans right
NestedByAssociativity(n) ==
    CASE n.type = "binary_op" ->
            /\ SameLevelBinary(n, n.left) => n.operator # "POWER"
            /\ SameLevelBinary(n, n.right) => n.operator = "POWER"
            /\ NestedByAssociativity(n.left) /\ NestedByAssociativity(n.right)
      [] n.type = "unary_op" -> NestedByAssociativity(n.operand)
      [] OTHER -> TRUE

\* C4: in the tree parse builds for a chain, operators of one level
\* associate to the left, (a - b) - c, except ^, which associates to the
\* right, a ^ (b ^ c).
C4_Associativity ==
    ParsedChain =>
        /\ Yield(outcome.result.ast) = chain
        /\ NestedByAssociativity(outcome.result.ast)

\* a ^ b ^ c was parsed as a ^ (b ^ c)
C4_Witness ==
    /\ ParsedChain
    /\ Operators(chain) = <<Item("binary", "POWER"), Item("binary", "POWER")>>
    /\ outcome.result.ast =
           DaxBinaryOp(Leaf(1), "POWER", DaxBinaryOp(Leaf(2), "POWER", Leaf(3)))

\* C5: when the lexer raised LexerError or the parser raised ParseError,
\* the entry point returns a ParseResult whose AST is the blank-literal
\* placeholder and whose errors list is not empty, so success is false.
C5_PlaceholderOnFailure ==
    (outcome.st # "none" /\ outcome.raised \in {"LexerError", "ParseError"}) =>
        /\ outcome.st = "return"
        /\ outcome.result.ast = BlankLiteral
        /\ Len(outcome.result.errors) >= 1
        /\ ~Success(outcome.result)

\* parse_measure met an unexpected token after "[m]=" and returned the placeholder
C5_Witness ==
    /\ outcome.st = "return"
    /\ outcome.method = "parse_measure"
    /\ outcome.raised = "ParseError"
    /\ outcome.result.errors[1].msg = "Unexpected token"
    /\ IsPlaceholder(outcome.result.ast)

\* tokens other than EOF are left after the expression
TokensLeft == ~IsAtEnd(outcome.result.tokens, parser.current)

\* C6: when tokens other than EOF are left after an expression that parsed
\* without a ParseError, errors has an entry for the unexpected trailing
\* token, success is false and the parsed AST is returned, for parse and
\* for parse_measure.
C6_TrailingReported ==
    (outcome.st = "return" /\ outcome.raised = "none" /\ TokensLeft) =>
        /\ \E i \in DOMAIN outcome.result.errors :
               outcome.result.errors[i] = TrailingError(Peek(outcome.result.tokens, parser.current))
        /\ ~Success(outcome.result)

RECURSIVE ParenDepth(_)
\* '(' minus ')' over a text
ParenDepth(s) ==
    IF s = <<>> THEN 0
    ELSE ParenDepth(SubSeq(s, 1, Len(s) - 1))
             + (IF s[Len(s)] = "(" THEN 1 ELSE IF s[Len(s)] = ")" THEN -1 ELSE 0)

\* a ')' without a matching '(' or a '(' that is never closed
Unbalanced(s) ==
    \/ ParenDepth(s) # 0
    \/ \E k \in 1..Len(s) : ParenDepth(SubSeq(s, 1, k)) < 0

\* C7: for a source with unbalanced parentheses parse returns a non-empty
\* errors list.
C7_UnbalancedRejected ==
    (outcome.st # "none" /\ outcome.method = "parse" /\ Unbalanced(input)) =>
        /\ outcome.st = "return"
        /\ Len(outcome.result.errors) > 0

(***************************************************************************)
(* Properties of the lexer.                                                *)
(***************************************************************************)
\* C8: the list tokenize returns has no whitespace, newline or comment token.
C8_NoTriviaTokens ==
    lexOutcome.st = "return" =>
        \A i \in DOMAIN lexOutcome.tokens :
            lexOutcome.tokens[i].type \notin {"WHITESPACE", "NEWLINE", "COMMENT"}

\* C9: every list tokenize returns, on any call made on a lexer object,
\* holds exactly one EOF token, as its last element.
C9_EofTerminated ==
    lexOutcome.st = "return" =>
        /\ Len(lexOutcome.tokens) > 0
        /\ \A i \in DOMAIN lexOutcome.tokens :
               lexOutcome.tokens[i].type = "EOF" <=> i = Len(lexOutcome.tokens)

(***************************************************************************)
(* One SchemaContext: relationships are added and join paths are asked.    *)
(***************************************************************************)
\* the most relationships added to the context
MaxRels == 3

\* the fact table and the other tables, as named in relationships
FactTable == <<"s">>

RelationshipTables == { FactTable, <<"A">>, <<"b">> }

\* the names get_join_path is asked with
QueryTables == { <<"S">>, <<"a">>, <<"b">> }

\* ctx.add_relationship(rel)
AddRelationship(rel) ==
    /\ Len(relationships) < MaxRels
    /\ relationships' = Append(relationships, rel)
    /\ joinResult' = NoOutcome
    /\ UNCHANGED <<inputVars, parserVars, lexerVars, engineVars>>

\* ctx.get_join_path(from_table, to_table)
CallGetJoinPath(from_table, to_table) ==
    /\ joinResult' = [st |-> "return", from_table |-> from_table, to_table |-> to_table,
                      path |-> GetJoinPath(relationships, from_table, to_table)]
    /\ UNCHANGED <<inputVars, parserVars, lexerVars, relationships, engineVars>>

ContextNext ==
    \/ \E f \in RelationshipTables, t \in RelationshipTables, active \in BOOLEAN :
           f # t /\ AddRelationship(TableRelationship(f, <<"k">>, t, <<"k">>, active))
    \/ \E f \in QueryTables, t \in QueryTables : CallGetJoinPath(f, t)

\* relationships added to one schema context, and join paths asked of it
ContextSpec == Init /\ [][ContextNext]_vars

(***************************************************************************)
(* Properties of get_join_path.                                            *)
(***************************************************************************)
ActiveRels == {i \in DOMAIN relationships : relationships[i].is_active}

\* the tables one active relationship away from table t, in either direction
Neighbours(t) ==
    {Lower(relationships[i].to_table) : i \in {j \in ActiveRels : Lower(relationships[j].from_table) = t}}
        \cup
    {Lower(relationships[i].from_table) : i \in {j \in ActiveRels : Lower(relationships[j].to_table) = t}}

RECURSIVE Within(_, _)
\* the tables at most k active relationships away from table t
Within(k, t) ==
    IF k = 0 THEN {t}
    ELSE LET near == Within(k - 1, t) IN near \cup UNION {Neighbours(n) : n \in near}

Connected(f, t) == t \in Within(Len(relationships), f)

\* the least number of active relationships that lead from f to t
Distance(f, t) == CHOOSE k \in 0..Len(relationships) :
                      /\ t \in Within(k, f)
                      /\ \A m \in 0..(k - 1) : t \notin Within(m, f)

RECURSIVE ChainEnd(_, _)
\* the table a list of relationships leads to from table t when each is an
\* active relationship of the context that continues from the one before
\* it; <<>> when the list is not such a chain
ChainEnd(path, t) ==
    IF path = <<>> THEN t
    ELSE LET rel == Head(path)
             listed == \E i \in ActiveRels : relationships[i] = rel
         IN IF listed /\ Lower(rel.from_table) = t THEN ChainEnd(Tail(path), Lower(rel.to_table))
            ELSE IF listed /\ Lower(rel.to_table) = t THEN ChainEnd(Tail(path), Lower(rel.from_table))
            ELSE <<>>

\* every relationship is active and leads from the fact table to a
\* dimension table of its own
IsStar ==
    /\ \A i \in DOMAIN relationships :
           /\ relationships[i].is_active
           /\ Lower(relationships[i].from_table) = Lower(FactTable)
    /\ \A i, j \in DOMAIN relationships :
           relationships[i].to_table = relationships[j].to_table => i = j

Dimensions == {Lower(relationships[i].to_table) : i \in DOMAIN relationships}

Asked == joinResult.st = "return" /\ Lower(joinResult.from_table) # Lower(joinResult.to_table)

\* C10: when active relationships, taken in either direction, connect the
\* source table to the target table, get_join_path returns a chain of them
\* from the source to the target, of the least possible length; in a star
\* schema that is one relationship from the fact table to a dimension and
\* two from one dimension to another.
C10_ShortestPath ==
    Asked =>
        LET f == Lower(joinResult.from_table)
            t == Lower(joinResult.to_table)
        IN /\ Connected(f, t) =>
                  /\ ChainEnd(joinResult.path, f) = t
                  /\ Len(joinResult.path) = Distance(f, t)
           /\ (IsStar /\ f = Lower(FactTable) /\ t \in Dimensions) =>
                  Len(joinResult.path) = 1
           /\ (IsStar /\ f \in Dimensions /\ t \in Dimensions) =>
                  Len(joinResult.path) = 2

\* in a star schema the path from one dimension to another was asked and
\* has two relationships, through the fact table
C10_Witness ==
    /\ Asked
    /\ IsStar
    /\ Lower(joinResult.from_table) \in Dimensions
    /\ Lower(joinResult.to_table) \in Dimensions
    /\ Len(joinResult.path) = 2
    /\ Lower(joinResult.path[1].from_table) = Lower(FactTable)

\* distinct tables were asked that no chain of active relationships connects
AskedDisconnected ==
    /\ Asked
    /\ ~Connected(Lower(joinResult.from_table), Lower(joinResult.to_table))

\* C11: for two distinct tables that no chain of relationships connects,
\* get_join_path returns an outcome that differs from the empty list it
\* returns for identical tables.
C11_NoPathDistinct ==
    AskedDisconnected =>
        joinResult.path # GetJoinPath(relationships, joinResult.from_table,
                                      joinResult.from_table)

(***************************************************************************)
(* One FilterContext object: filters are added and removed and the         *)
(* effective filters asked.                                                *)
(***************************************************************************)
\* the most add_filter and remove_filter calls on the object
MaxFilterCalls == 4

FilterTables == { <<"t">>, <<"u">> }

FilterColumns == { <<"c">>, <<"d">> }

FilterConditions == { "x", "y" }

\* fc.add_filter(table, column, condition)
AddFilter(table, column, condition) ==
    /\ Len(filterCalls) < MaxFilterCalls
    /\ filterContext' = AddFilterTo(filterContext, table, column, condition)
    /\ filterCalls' = Append(filterCalls, [op |-> "add", table |-> table,
                                           column |-> column, condition |-> condition])
    /\ filterResult' = NoOutcome
    /\ UNCHANGED nonFilterVars

\* fc.remove_filter(table, column), fc.remove_filter(table) when column = <<>>
RemoveFilter(table, column) ==
    /\ Len(filterCalls) < MaxFilterCalls
    /\ filterContext' = RemoveFilterFrom(filterContext, table, column)
    /\ filterCalls' = Append(filterCalls, [op |-> "remove", table |-> table,
                                           column |-> column, condition |-> ""])
    /\ filterResult' = NoOutcome
    /\ UNCHANGED nonFilterVars

\* fc.get_effective_filters()
CallGetEffectiveFilters ==
    /\ filterResult' = [st |-> "return", method |-> "get_effective_filters",
                        value |-> GetEffectiveFilters(filterContext)]
    /\ UNCHANGED <<nonFilterVars, filterContext, filterCalls>>

\* fc.to_where_clause()
CallToWhereClause ==
    /\ filterResult' = [st |-> "return", method |-> "to_where_clause",
                        value |-> ToWhereClause(filterContext)]
    /\ UNCHANGED <<nonFilterVars, filterContext, filterCalls>>

FilterNext ==
    \/ \E table \in FilterTables, column \in FilterColumns, condition \in FilterConditions :
           AddFilter(table, column, condition)
    \/ \E table \in FilterTables, column \in FilterColumns \cup {<<>>} :
           RemoveFilter(table, column)
    \/ CallGetEffectiveFilters
    \/ CallToWhereClause

\* calls on one filter context
FilterSpec == Init /\ [][FilterNext]_vars

(***************************************************************************)
(* Properties of FilterContext, stated over the calls made.                *)
(***************************************************************************)
AddCalls == {i \in DOMAIN filterCalls : filterCalls[i].op = "add"}

CallKey(i) == filterCalls[i].table \o <<".">> \o filterCalls[i].column

\* the keys call i removes: the one column, or every filter added so far
\* for the table
KeysRemovedBy(i) ==
    IF filterCalls[i].op # "remove" THEN {}
    ELSE IF filterCalls[i].column # <<>> THEN {CallKey(i)}
    ELSE {CallKey(j) : j \in {a \in AddCalls : a < i /\ filterCalls[a].table = filterCalls[i].table}}

EverRemoved == UNION {KeysRemovedBy(i) : i \in DOMAIN filterCalls}

\* the add calls whose key was never removed
KeptAdds == {i \in AddCalls : CallKey(i) \notin EverRemoved}

RECURSIVE ConditionsFrom(_, _)
\* the conditions added for key by the calls from i on, in the order added
ConditionsFrom(key, i) ==
    IF i > Len(filterCalls) THEN <<>>
    ELSE (IF i \in AddCalls /\ CallKey(i) = key THEN <<filterCalls[i].condition>> ELSE <<>>)
             \o ConditionsFrom(key, i + 1)

RECURSIVE KeptConditionsFrom(_)
\* the conditions of the kept filters, filter by filter in the order the
\* filters were first added
KeptConditionsFrom(i) ==
    IF i > Len(filterCalls) THEN <<>>
    ELSE (IF i \in KeptAdds /\ \A j \in AddCalls : j < i => CallKey(j) # CallKey(i)
          THEN ConditionsFrom(CallKey(i), i) ELSE <<>>)
             \o KeptConditionsFrom(i + 1)

RECURSIVE Interleave(_, _)
Interleave(separator, strings) ==
    IF Len(strings) <= 1 THEN strings
    ELSE <<strings[1], separator>> \o Interleave(separator, Tail(strings))

RECURSIVE Concat(_)
Concat(strings) == IF strings = <<>> THEN "" ELSE Head(strings) \o Concat(Tail(strings))

\* C12: after any sequence of add_filter and remove_filter calls,
\* get_effective_filters returns exactly the added filters whose key was
\* never removed, each with all its conditions in the order added, and
\* to_where_clause is those conditions joined by " AND " (the empty string
\* when there are none).
C12_EffectiveFilters ==
    /\ (filterResult.st = "return" /\ filterResult.method = "get_effective_filters") =>
           /\ {<<filterResult.value[i].key, filterResult.value[i].conds>> :
                   i \in DOMAIN filterResult.value}
                  = {<<CallKey(a), ConditionsFrom(CallKey(a), 1)>> : a \in KeptAdds}
           /\ \A i, j \in DOMAIN filterResult.value :
                  filterResult.value[i].key = filterResult.value[j].key => i = j
    /\ (filterResult.st = "return" /\ filterResult.method = "to_where_clause") =>
           filterResult.value = Concat(Interleave(" AND ", KeptConditionsFrom(1)))

\* the where clause was asked after a filter with two conditions was kept
\* and another filter removed
C12_Witness ==
    /\ filterResult.st = "return"
    /\ filterResult.method = "to_where_clause"
    /\ filterResult.value = "y AND x"
    /\ EverRemoved \cap {CallKey(a) : a \in AddCalls} # {}

(***************************************************************************)
(* Translate calls on one shared SchemaContext, whose filter_context is    *)
(* the one FilterContext that SchemaContext.__init__ creates.  The calls   *)
(* run one after another or interleave, step by step.                      *)
(***************************************************************************)
\* the most filter-context changes one translate call makes
MaxTranslateSteps == 2

TranslateConditions == { "x", "y" }

\* translate(dax) starts: the filter context of the SchemaContext is reset
TranslateStart(c) ==
    /\ translations[c].pc \in {"idle", "done"}
    /\ filterContext' = NewFilterContext
    /\ translations' = [translations EXCEPT ![c] =
                            [pc |-> "running", own |-> NewFilterContext,
                             seen |-> <<>>, steps |-> 0]]
    /\ UNCHANGED <<nonTranslateVars, filterCalls, filterResult>>

\* the call adds a filter: context.filter_context.add_filter(...)
TranslateAddFilter(c, table, column, condition) ==
    /\ translations[c].pc = "running"
    /\ translations[c].steps < MaxTranslateSteps
    /\ filterContext' = AddFilterTo(filterContext, table, column, condition)
    /\ translations' = [translations EXCEPT
                            ![c].own = AddFilterTo(@, table, column, condition),
                            ![c].steps = @ + 1]
    /\ UNCHANGED <<nonTranslateVars, filterCalls, filterResult>>

\* the call removes a filter: context.filter_context.remove_filter(...)
TranslateRemoveFilter(c, table, column) ==
    /\ translations[c].pc = "running"
    /\ translations[c].steps < MaxTranslateSteps
    /\ filterContext' = RemoveFilterFrom(filterContext, table, column)
    /\ translations' = [translations EXCEPT
                            ![c].own = RemoveFilterFrom(@, table, column),
                            ![c].steps = @ + 1]
    /\ UNCHANGED <<nonTranslateVars, filterCalls, filterResult>>

\* the call reads the effective filters for its WHERE clause and returns
TranslateReadFilters(c) ==
    /\ translations[c].pc = "running"
    /\ translations' = [translations EXCEPT
                            ![c].pc = "done",
                            ![c].seen = GetEffectiveFilters(filterContext)]
    /\ UNCHANGED <<nonTranslateVars, filterVars>>

TranslateNext ==
    \/ \E c \in TranslateCalls : TranslateStart(c)
    \/ \E c \in TranslateCalls, condition \in TranslateConditions :
           TranslateAddFilter(c, <<"t">>, <<"c">>, condition)
    \/ \E c \in TranslateCalls : TranslateRemoveFilter(c, <<"t">>, <<"c">>)
    \/ \E c \in TranslateCalls : TranslateReadFilters(c)

\* translate calls sharing one SchemaContext
TranslateSpec == Init /\ [][TranslateNext]_vars

\* C13: a translate call sees only the filter-context changes it made
\* itself since it started from an empty filter context, never those of
\* another call on the same SchemaContext, whether the calls run one after
\* another or interleave.
C13_FilterContextIsolated ==
    \A c \in TranslateCalls :
        translations[c].pc = "done" =>
            translations[c].seen = GetEffectiveFilters(translations[c].own)

(***************************************************************************)
(* One SqlValidator: SQL text is typed and handed to validate or to        *)
(* validate_expression.                                                    *)
(***************************************************************************)
\* the longest SQL text typed, in pieces
MaxSqlPieces == 3

\* the pieces of SQL text a caller types
SqlPieces == { <<"(">>, <<")">>, <<"'">>, <<"\"">>, <<",">>, <<"a">>, <<" ">>,
               <<"A", "N", "D">>, <<"o", "r">>, <<"=", " ", "N", "U", "L", "L">>, <<"/">> }

\* what snowflake_client.execute_query does when called: it returns rows,
\* or raises an exception with or without a message
Backends == { [raises |-> FALSE, message |-> ""],
              [raises |-> TRUE, message |-> "timeout"],
              [raises |-> TRUE, message |-> ""] }

\* the caller types one more piece of SQL text
TypeSql(piece) ==
    /\ Idle
    /\ valResult = NoOutcome
    /\ Len(chain) < MaxSqlPieces
    /\ input' = input \o piece
    /\ chain' = Append(chain, Item("sql", piece))
    /\ UNCHANGED <<sep, nonValidatorVars, valResult>>

\* SqlValidator(client).validate(input, check_syntax, True, execute)
CallValidate(has_client, backend, check_syntax, execute) ==
    /\ valResult = NoOutcome
    /\ valResult' = [st |-> "return", method |-> "validate", has_client |-> has_client,
                     backend |-> backend, execute |-> execute,
                     result |-> Validate(has_client, backend, input, check_syntax,
                                         TRUE, execute)]
    /\ UNCHANGED <<inputVars, nonValidatorVars>>

\* SqlValidator().validate_expression(input)
CallValidateExpression ==
    /\ valResult = NoOutcome
    /\ valResult' = [st |-> "return", method |-> "validate_expression",
                     has_client |-> FALSE, backend |-> [raises |-> FALSE, message |-> ""],
                     execute |-> FALSE, result |-> ValidateExpression(input)]
    /\ UNCHANGED <<inputVars, nonValidatorVars>>

ValidatorNext ==
    \/ \E piece \in SqlPieces : TypeSql(piece)
    \/ \E backend \in Backends, check_syntax \in BOOLEAN, execute \in BOOLEAN :
           CallValidate(TRUE, backend, check_syntax, execute)
    \/ \E check_syntax \in BOOLEAN, execute \in BOOLEAN :
           CallValidate(FALSE, [raises |-> FALSE, message |-> ""], check_syntax, execute)
    \/ CallValidateExpression

\* SQL text handed to one validator
ValidatorSpec == Init /\ [][ValidatorNext]_vars

(***************************************************************************)
(* Properties of the validator.                                            *)
(***************************************************************************)
Validated == valResult.st = "return"

HasIssue(level) ==
    \E i \in DOMAIN valResult.result.issues : valResult.result.issues[i].level = level

\* C14: for validate and for validate_expression, is_valid is true exactly
\* when no returned issue has level ERROR; WARNING and INFO issues never
\* make is_valid false.
C14_ValidIffNoError ==
    Validated => (valResult.result.is_valid <=> ~HasIssue("ERROR"))

\* validate_expression found "a = NULL" valid, with a WARNING
C14_Witness ==
    /\ Validated
    /\ valResult.method = "validate_expression"
    /\ input = <<"a", " ", "=", " ", "N", "U", "L", "L">>
    /\ valResult.result.is_valid
    /\ HasIssue("WARNING")

\* the number of '(' less the number of ')' among the first n characters
RECURSIVE ParenDepthAt(_, _)
ParenDepthAt(s, n) ==
    IF n = 0 THEN 0
    ELSE ParenDepthAt(s, n - 1)
             + (IF s[n] = "(" THEN 1 ELSE IF s[n] = ")" THEN 0 - 1 ELSE 0)

\* the 0-based positions of a ')' with no matching '(' before it
ExtraClosings(s) == {n \in 0..(Len(s) - 1) : ParenDepthAt(s, n + 1) < 0}

ParenMessages == {"Unbalanced parentheses: extra closing parenthesis",
                  "Unbalanced parentheses: unclosed"}

\* the parenthesis issues validate_expression returned for the text typed
ParenIssuesReturned ==
    SelectSeq(valResult.result.issues, LAMBDA issue : issue.message \in ParenMessages)

ExpressionValidated == Validated /\ valResult.method = "validate_expression"

\* C15: the parenthesis scan reports an ERROR exactly when the text is not
\* a balanced parenthesis sequence: the first ')' without a matching '(' is
\* reported with its position and nothing else; otherwise '(' left open are
\* reported once with their number, opens minus closes; a balanced text
\* gets no parenthesis issue.
C15_ParenScan ==
    ExpressionValidated =>
        IF ExtraClosings(input) # {}
        THEN /\ Len(ParenIssuesReturned) = 1
             /\ ParenIssuesReturned[1].level = "ERROR"
             /\ ParenIssuesReturned[1].message
                    = "Unbalanced parentheses: extra closing parenthesis"
             /\ ParenIssuesReturned[1].detail \in ExtraClosings(input)
             /\ \A n \in ExtraClosings(input) : ParenIssuesReturned[1].detail <= n
        ELSE IF ParenDepthAt(input, Len(input)) > 0
        THEN /\ Len(ParenIssuesReturned) = 1
             /\ ParenIssuesReturned[1].level = "ERROR"
             /\ ParenIssuesReturned[1].message = "Unbalanced parentheses: unclosed"
             /\ ParenIssuesReturned[1].detail = ParenDepthAt(input, Len(input))
        ELSE ParenIssuesReturned = <<>>

\* "())" was validated: the extra ')' at position 2 is the one issue
C15_Witness ==
    /\ ExpressionValidated
    /\ input = <<"(", ")", ")">>
    /\ Len(ParenIssuesReturned) = 1
    /\ ParenIssuesReturned[1].detail = 2

\* the text has an odd number of the quote character q
OddQuotes(s, q) == Cardinality({n \in DOMAIN s : s[n] = q}) % 2 = 1

\* C16: validate_expression reports an ERROR, and is_valid false, for a text
\* with unbalanced single or double quotes, with a trailing comma, or with
\* a trailing AND/OR.
C16_ExpressionRejectsIncomplete ==
    ExpressionValidated
        /\ (\/ OddQuotes(input, "'")
            \/ OddQuotes(input, "\"")
            \/ TrailingComma(input)
            \/ TrailingAndOr(input))
        => HasIssue("ERROR") /\ ~valResult.result.is_valid

ExecutionMessages == {"Execution failed", "Could not test execution"}

\* the issues validate recorded for its execution test
ExecutionIssuesReturned ==
    SelectSeq(valResult.result.issues, LAMBDA issue : issue.message \in ExecutionMessages)

\* the execution test ran and the backend failed
ExecutionFailed ==
    /\ Validated
    /\ valResult.method = "validate"
    /\ valResult.has_client
    /\ valResult.execute
    /\ valResult.backend.raises

\* C17: when the execution test runs and the backend fails, validate records
\* a WARNING and no ERROR for it, so that the failure alone never makes
\* is_valid false.
C17_ExecutionFailureWarns ==
    ExecutionFailed =>
        /\ ExecutionIssuesReturned # <<>>
        /\ \A i \in DOMAIN ExecutionIssuesReturned :
               ExecutionIssuesReturned[i].level = "WARNING"
        /\ Len(ExecutionIssuesReturned) = Len(valResult.result.issues)
               => valResult.result.is_valid

(***************************************************************************)
(* The Cortex translator: the text typed is the response of the model; a   *)
(* caller hands its own SQL to translate_dax or enhance_translation, and   *)
(* the client answers the query in one of the ways below.                  *)
(***************************************************************************)
MaxResponsePieces == 3

\* the pieces of a response of the model
ResponsePieces == { Fence, <<"s", "q", "l">>, <<"\n">>, <<" ">>, <<"S", "E", "L", "E", "C", "T", " ", "1">>,
                    <<"#", " ", "c">>, <<"N", "o", "t", "e", ":", " ">>, <<"x">> }

\* the SQL a caller made itself
CallerSql == { <<>>, <<"S", "E", "L", "E", "C", "T", " ", "2">> }

\* what client.execute_sql does with the query: it raises, with or without
\* a message, returns None, no row, a row without RESPONSE, a row whose
\* RESPONSE is None, or a row with the response typed
Replies(response) ==
    { [kind |-> "raises", message |-> "timeout", response |-> <<>>],
      [kind |-> "raises", message |-> "", response |-> <<>>],
      [kind |-> "none", message |-> "", response |-> <<>>],
      [kind |-> "empty", message |-> "", response |-> <<>>],
      [kind |-> "row_without_response", message |-> "", response |-> <<>>],
      [kind |-> "row_with_none", message |-> "", response |-> <<>>],
      [kind |-> "row", message |-> "", response |-> response] }

\* the model writes one more piece of its response
TypeResponse(piece) ==
    /\ Idle
    /\ cortexResult = NoOutcome
    /\ Len(chain) < MaxResponsePieces
    /\ input' = input \o piece
    /\ chain' = Append(chain, Item("response", piece))
    /\ UNCHANGED <<sep, nonCortexVars, cortexResult>>

\* CortexLLMTranslator(client).translate_dax(dax, None, initial_sql)
CallTranslateDax(reply, initial_sql) ==
    /\ cortexResult = NoOutcome
    /\ cortexResult' = [st |-> "return", method |-> "translate_dax", reply |-> reply.kind,
                        given |-> initial_sql, result |-> TranslateDax(reply, initial_sql)]
    /\ UNCHANGED <<inputVars, nonCortexVars>>

\* CortexLLMTranslator(client).enhance_translation(dax, pattern_sql, "MEDIUM", [])
CallEnhanceTranslation(reply, pattern_sql) ==
    /\ cortexResult = NoOutcome
    /\ cortexResult' = [st |-> "return", method |-> "enhance_translation",
                        reply |-> reply.kind, given |-> SomeStr(pattern_sql),
                        result |-> EnhanceTranslation(reply, pattern_sql)]
    /\ UNCHANGED <<inputVars, nonCortexVars>>

CortexNext ==
    \/ \E piece \in ResponsePieces : TypeResponse(piece)
    \/ \E reply \in Replies(input), sql \in CallerSql : CallTranslateDax(reply, SomeStr(sql))
    \/ \E reply \in Replies(input) : CallTranslateDax(reply, NoneStr)
    \/ \E reply \in Replies(input), sql \in CallerSql : CallEnhanceTranslation(reply, sql)

\* responses handed to one Cortex translator
CortexSpec == Init /\ [][CortexNext]_vars

\* the Cortex call raised or returned no response
CortexFailed ==
    /\ cortexResult.st = "return"
    /\ cortexResult.reply \in {"raises", "none", "empty"}

\* C18: when the Cortex call raises or returns no response, translate_dax
\* and enhance_translation return, with success false, error set and sql
\* the SQL the caller gave (the empty string when it gave none).
C18_DegradesToCallerSql ==
    /\ cortexResult.st \in {"none", "return"}
    /\ CortexFailed =>
           /\ ~cortexResult.result.success
           /\ cortexResult.result.error.some
           /\ cortexResult.result.sql
                  = (IF cortexResult.given.some THEN cortexResult.given.text ELSE <<>>)

\* translate_dax was given "SELECT 2", no row came back, "SELECT 2" is returned
C18_Witness ==
    /\ CortexFailed
    /\ cortexResult.method = "translate_dax"
    /\ cortexResult.reply = "empty"
    /\ cortexResult.given = SomeStr(<<"S", "E", "L", "E", "C", "T", " ", "2">>)
    /\ cortexResult.result.sql = <<"S", "E", "L", "E", "C", "T", " ", "2">>
    /\ input # <<>>

(***************************************************************************)
(* Translations: a caller writes an expression from the inside out, a      *)
(* reference or a number first, then calls around it and operands after    *)
(* it, and has it translated with or without the sample context.           *)
(***************************************************************************)
MaxTranslateOps == 3

\* a number, two columns the sample context has or has not, a table
TranslateLeaves == { <<"1">>, <<"S", "a", "l", "e", "s", "[", "A", "m", "o", "u", "n", "t", "]">>, <<"S", "a", "l", "e", "s", "[", "X", "]">>,
                     <<"S", "a", "l", "e", "s">> }

\* functions the library has, in either case, and one it has not
TranslateFunctions == { <<"S", "U", "M">>, <<"s", "u", "m">>, <<"C", "A", "L", "C", "U", "L", "A", "T", "E">>,
                        <<"U", "N", "K", "N", "O", "W", "N", "F", "U", "N", "C">> }

Confidences == {"MEDIUM", "LOW"}

\* the caller writes the innermost operand
TypeLeaf(leaf) ==
    /\ Idle
    /\ translated = NoOutcome
    /\ chain = <<>>
    /\ input' = leaf
    /\ chain' = <<Item("leaf", leaf)>>
    /\ UNCHANGED <<sep, nonConfidenceVars, translated>>

\* the caller puts a call around what is written
TypeCallAround(function_name) ==
    /\ Idle
    /\ translated = NoOutcome
    /\ chain # <<>>
    /\ Len(chain) < MaxTranslateOps
    /\ input' = function_name \o <<"(">> \o input \o <<")">>
    /\ chain' = Append(chain, Item("call", function_name))
    /\ UNCHANGED <<sep, nonConfidenceVars, translated>>

\* the caller adds an operand to what is written
TypeSummand(leaf) ==
    /\ Idle
    /\ translated = NoOutcome
    /\ chain # <<>>
    /\ Len(chain) < MaxTranslateOps
    /\ input' = input \o <<" ", "+", " ">> \o leaf
    /\ chain' = Append(chain, Item("summand", leaf))
    /\ UNCHANGED <<sep, nonConfidenceVars, translated>>

\* DaxTranslator().translate(input, context)
CallTranslate(context, guess) ==
    /\ translated = NoOutcome
    /\ chain # <<>>
    /\ translated' = [call |-> Translate(input, context, guess), context |-> context,
                      guess |-> guess]
    /\ UNCHANGED <<inputVars, nonConfidenceVars>>

ConfidenceNext ==
    \/ \E leaf \in TranslateLeaves : TypeLeaf(leaf)
    \/ \E function_name \in TranslateFunctions : TypeCallAround(function_name)
    \/ \E leaf \in TranslateLeaves : TypeSummand(leaf)
    \/ \E guess \in Confidences : CallTranslate(NoContext, guess)
    \/ \E guess \in Confidences : CallTranslate(SomeContext(CreateSampleRetailContext), guess)

\* expressions handed to one translator
ConfidenceSpec == Init /\ [][ConfidenceNext]_vars

RECURSIVE Nodes(_)
\* the nodes of a tree
Nodes(node) ==
    {node} \cup
    (IF node.type = "function"
     THEN UNION {Nodes(node.arguments[i]) : i \in DOMAIN node.arguments}
     ELSE IF node.type = "binary_op" THEN Nodes(node.left) \cup Nodes(node.right)
     ELSE IF node.type = "unary_op" THEN Nodes(node.operand)
     ELSE IF node.type = "measure" THEN Nodes(node.expression)
     ELSE {})

\* a translation returned with success
TranslatedWell ==
    /\ translated # NoOutcome
    /\ translated.call.st = "return"
    /\ translated.call.result.success

KnownFunctions == { <<"S", "U", "M">>, <<"C", "O", "U", "N", "T", "R", "O", "W", "S">>, <<"C", "A", "L", "C", "U", "L", "A", "T", "E">>,
                    <<"R", "E", "L", "A", "T", "E", "D">> }

ContextFunctions == { <<"C", "A", "L", "C", "U", "L", "A", "T", "E">>, <<"R", "E", "L", "A", "T", "E", "D">> }

\* the references the sample context resolves, in lower case
KnownTables == { <<"s", "a", "l", "e", "s">> }

KnownColumns == { <<<<"s", "a", "l", "e", "s">>, <<"a", "m", "o", "u", "n", "t">>>>, <<<<"s", "a", "l", "e", "s">>, <<"q", "u", "a", "n", "t", "i", "t", "y">>>>,
                  <<<<"s", "a", "l", "e", "s">>, <<"s", "a", "l", "e", "_", "i", "d">>>> }

IsReference(node) == node.type \in {"column", "table"}

\* the reference is one the context given to the call resolves
ResolvedReference(node) ==
    /\ translated.context.some
    /\ IF node.type = "table" THEN Lower(node.table_name) \in KnownTables
       ELSE /\ node.has_table
            /\ <<Lower(node.table_name), Lower(node.column_name)>> \in KnownColumns

UnknownFunction(node) ==
    node.type = "function" /\ Upper(node.function_name) \notin KnownFunctions

\* the confidence a node leaves by itself
NodeConfidence(node) ==
    IF IsReference(node)
    THEN (IF ResolvedReference(node) THEN "HIGH" ELSE translated.guess)
    ELSE IF UnknownFunction(node) THEN "LOW"
    ELSE IF /\ node.type = "function"
            /\ Upper(node.function_name) \in ContextFunctions
            /\ ~translated.context.some
    THEN "MEDIUM"
    ELSE "HIGH"

C19_HighReached ==
    /\ TranslatedWell
    /\ input = <<"s", "u", "m", "(", "S", "a", "l", "e", "s", "[", "A", "m", "o", "u", "n", "t", "]", ")">>
    /\ translated.call.result.confidence = "HIGH"

(***************************************************************************)
(* VAR chains: the caller types definitions 'VAR name = expr', then        *)
(* 'RETURN e', with one separator between the tokens, and hands the text   *)
(* to parse.                                                               *)
(***************************************************************************)
MaxVars == 2

VarNames == { <<"x">>, <<"y">> }

\* the values of the definitions and the expressions returned
VarValues == { <<"1">>, <<"x">>, <<"x", "+", "y">>, <<"(", "y", ")">> }

HasReturn(items) == \E i \in DOMAIN items : items[i].kind = "return"

\* one more definition VAR name = value
TypeVar(name, value) ==
    /\ Idle
    /\ ~HasReturn(chain)
    /\ Len(chain) < MaxVars
    /\ input' = input \o <<"V", "A", "R">> \o sep \o name \o sep \o <<"=">> \o sep
                      \o value \o sep
    /\ chain' = Append(chain, Item("var", value))
    /\ UNCHANGED <<sep, parserVars, lexerVars, contextVars, engineVars>>

\* RETURN e after the definitions
TypeReturn(e) ==
    /\ Idle
    /\ chain # <<>>
    /\ ~HasReturn(chain)
    /\ input' = input \o <<"R", "E", "T", "U", "R", "N">> \o sep \o e
    /\ chain' = Append(chain, Item("return", e))
    /\ UNCHANGED <<sep, parserVars, lexerVars, contextVars, engineVars>>

VarChainNext ==
    \/ \E name \in VarNames, value \in VarValues : TypeVar(name, value)
    \/ \E e \in VarValues : TypeReturn(e)
    \/ ParseChain

\* VAR chains handed to parse
VarSpec == PrecInit /\ [][VarChainNext]_vars

\* parse returned for the chain typed
VarChainParsed == chain # <<>> /\ outcome # NoOutcome

\* the outcome of parsing alone the expression after RETURN
ReturnedAlone == Parse(NewParser, chain[Len(chain)].text)

\* C20: for a chain of VAR definitions followed by RETURN e, parse gives
\* the tree that parsing e alone gives; for a chain of VAR definitions
\* without RETURN, parse reports an error.
C20_VarChainIsReturn ==
    VarChainParsed =>
        /\ outcome.st = "return"
        /\ IF HasReturn(chain)
           THEN /\ Success(outcome.result) <=> Success(ReturnedAlone.result)
                /\ outcome.result.ast = ReturnedAlone.result.ast
           ELSE ~Success(outcome.result)

\* the claim for the chains typed with single spaces between their tokens
C20_SpacedVarChainIsReturn == sep = <<" ">> => C20_VarChainIsReturn

\* "VAR x = 1 VAR y = x RETURN x+y" was parsed into the tree of "x+y"
C20_SpacedWitness ==
    /\ VarChainParsed
    /\ sep = <<" ">>
    /\ Len(chain) = 3
    /\ chain[3] = Item("return", <<"x", "+", "y">>)
    /\ Success(outcome.result)
    /\ outcome.result.ast.type = "binary_op"

(***************************************************************************)
(* Properties of the error strings.                                        *)
(***************************************************************************)
\* the token the parser stood at when the ParseError was raised
FailedToken == Peek(outcome.result.tokens, parser.current)

\* C21: every error string that parse or parse_measure records for a parse
\* failure carries the line and the column of the token at which parsing
\* failed.
C21_ParseErrorsCarryPosition ==
    (outcome.st = "return" /\ outcome.raised = "ParseError") =>
        \A i \in DOMAIN outcome.result.errors :
            /\ outcome.result.errors[i].has_pos
            /\ outcome.result.errors[i].line = FailedToken.line
            /\ outcome.result.errors[i].column = FailedToken.column

(***************************************************************************)
(* One SchemaContext: relationships are added and the joins of a list of   *)
(* tables are asked.                                                       *)
(***************************************************************************)
\* the most relationships added before the joins are asked
MaxJoinRels == 2

\* the lists of tables generate_joins is asked with: at most as many as
\* there are names
TableLists == UNION {[1..n -> QueryTables] : n \in 0..Cardinality(QueryTables)}

\* ctx.generate_joins(tables)
CallGenerateJoins(tables, result) ==
    /\ joinsResult = NoOutcome
    /\ joinsResult' = [st |-> "return", tables |-> tables, text |-> result.text,
                       joins |-> result.joins, clauses |-> result.clauses,
                       joined |-> result.joined]
    /\ UNCHANGED <<inputVars, parserVars, lexerVars, contextVars, serviceVars, registryVars,
                   objectVars>>

\* one more active relationship, before the joins are asked
AddJoinRelationship(rel) ==
    /\ joinsResult = NoOutcome
    /\ Len(relationships) < MaxJoinRels
    /\ AddRelationship(rel)

JoinsNext ==
    \/ \E f \in RelationshipTables, t \in RelationshipTables :
           f # t /\ AddJoinRelationship(TableRelationship(f, <<"k">>, t, <<"k">>, TRUE))
    \/ \E tables \in TableLists :
           \E result \in GenerateJoins(relationships, tables) :
               CallGenerateJoins(tables, result)

\* relationships added to one schema context, and joins asked of it
JoinsSpec == Init /\ [][JoinsNext]_vars

JoinsAsked == joinsResult.st = "return" /\ Len(joinsResult.tables) >= 2

\* the requested tables after the first, in lower case
RequestedAfterBase ==
    {Lower(joinsResult.tables[i]) : i \in 2..Len(joinsResult.tables)}

BaseTable == Lower(joinsResult.tables[1])

\* the tables the clauses returned join, in lower case and in order
JoinedInOrder ==
    [i \in DOMAIN joinsResult.clauses |-> Lower(joinsResult.clauses[i].join_table)]

\* C22: generate_joins returns without an error for every list of tables;
\* a requested table that no chain of active relationships connects to the
\* first table gets no JOIN clause, and every requested table that such a
\* chain connects to it is joined, also when listed after one that is not.
C22_UnreachableSkipped ==
    /\ joinsResult.st \in {"none", "return"}
    /\ JoinsAsked =>
           /\ \A t \in RequestedAfterBase :
                  ~Connected(BaseTable, t) => t \notin Range(JoinedInOrder)
           /\ \A t \in RequestedAfterBase :
                  (Connected(BaseTable, t) /\ t # BaseTable) => t \in Range(JoinedInOrder)
           /\ Len(joinsResult.joins) = Len(joinsResult.clauses)
           /\ joinsResult.text = <<>> <=> joinsResult.clauses = <<>>

\* [S, a, b] was asked with s-b the one relationship: a is skipped, b joined
C22_Witness ==
    /\ JoinsAsked
    /\ joinsResult.tables = << <<"S">>, <<"a">>, <<"b">> >>
    /\ ~Connected(<<"s">>, <<"a">>)
    /\ JoinedInOrder = << <<"b">> >>

\* C29: in what generate_joins returns no table is joined twice, the first
\* table is never joined, and each clause joins a table by a relationship
\* whose other end is the first table or a table joined by an earlier
\* clause.
C29_JoinsWellFormed ==
    JoinsAsked =>
        /\ \A i, j \in DOMAIN JoinedInOrder : JoinedInOrder[i] = JoinedInOrder[j] => i = j
        /\ BaseTable \notin Range(JoinedInOrder)
        /\ \A i \in DOMAIN joinsResult.clauses :
               LET rel == joinsResult.clauses[i].rel
                   before == {BaseTable} \cup {JoinedInOrder[k] : k \in 1..(i - 1)}
               IN \/ /\ Lower(rel.from_table) = JoinedInOrder[i]
                     /\ Lower(rel.to_table) \in before
                  \/ /\ Lower(rel.to_table) = JoinedInOrder[i]
                     /\ Lower(rel.from_table) \in before

\* [S, b] was asked with A-s and A-b: A is joined, then b through A
C29_Witness ==
    /\ JoinsAsked
    /\ joinsResult.tables = << <<"S">>, <<"b">> >>
    /\ JoinedInOrder = << <<"a">>, <<"b">> >>
    /\ Lower(joinsResult.clauses[1].rel.to_table) = <<"s">>

(***************************************************************************)
(* A schema context that is built by add_table and add_relationship calls, *)
(* asked for join paths, and serialized and read back.                     *)
(***************************************************************************)
\* the most add_table calls made on the context
MaxTables == 2

\* the most relationships added to that context
MaxSchemaRels == 1

\* the physical names of the tables registered
PhysicalNames == { <<"t">>, <<"u">> }

\* the DAX aliases they are registered under, if any
DaxNames == { NoneStr, SomeStr(<<"A">>), SomeStr(<<"B">>) }

\* the tables registered: one with an alias has a key column
RegisteredTables ==
    { Table(name, dax_name,
            IF dax_name.some THEN << Column(<<"k">>, SomeStr(<<"K">>), "INTEGER", TRUE) >>
            ELSE <<>>,
            IF dax_name.some THEN << <<"k">> >> ELSE <<>>) :
        name \in PhysicalNames, dax_name \in DaxNames }

\* the names the context is asked to resolve
LookupNames == { <<"T">>, <<"u">>, <<"A">>, <<"b">> }

\* ctx.add_table(table)
CallAddTable(table) ==
    /\ restored = NoOutcome
    /\ tableCalls < MaxTables
    /\ schema' = AddTable(schema, table)
    /\ tableCalls' = tableCalls + 1
    /\ joinResult' = NoOutcome
    /\ UNCHANGED <<inputVars, parserVars, lexerVars, relationships, serviceVars,
                   joinsResult, restored, objectVars>>

\* ctx.add_relationship(rel) on that context
AddSchemaRelationship(rel) ==
    /\ restored = NoOutcome
    /\ Len(relationships) < MaxSchemaRels
    /\ AddRelationship(rel)

\* ctx.get_join_path(from_table, to_table) on that context
AskJoinPath(from_table, to_table) ==
    /\ restored = NoOutcome
    /\ CallGetJoinPath(from_table, to_table)

\* SchemaContext.from_json(ctx.to_json())
CallFromJson ==
    /\ restored = NoOutcome
    /\ joinResult = NoOutcome
    /\ restored' = [st |-> "return", method |-> "from_json"]
                       @@ FromJson(ToJson(schema, relationships))
    /\ UNCHANGED <<inputVars, parserVars, lexerVars, contextVars, serviceVars,
                   joinsResult, schema, tableCalls, objectVars>>

\* SchemaContext.from_dict(ctx.to_dict())
CallFromDict ==
    /\ restored = NoOutcome
    /\ joinResult = NoOutcome
    /\ restored' = [st |-> "return", method |-> "from_dict"]
                       @@ FromDict(ToDict(schema, relationships))
    /\ UNCHANGED <<inputVars, parserVars, lexerVars, contextVars, serviceVars,
                   joinsResult, schema, tableCalls, objectVars>>

SchemaNext ==
    \/ \E table \in RegisteredTables : CallAddTable(table)
    \/ \E f \in PhysicalNames, t \in PhysicalNames :
           f # t /\ AddSchemaRelationship(TableRelationship(f, <<"k">>, t, <<"k">>, TRUE))
    \/ \E f \in LookupNames, t \in LookupNames : AskJoinPath(f, t)
    \/ CallFromJson
    \/ CallFromDict

SchemaSpec == Init /\ [][SchemaNext]_vars

\* C23: a context read back from its own JSON or dict has the same tables (with
\* their columns, aliases and keys), the same relationships in the same order,
\* resolves every table and column name to the same result, and has an empty
\* filter context
C23_RoundTripPreserves ==
    restored.st = "return" =>
        /\ restored.schema.tables = schema.tables
        /\ restored.relationships = relationships
        /\ restored.filter_context = NewFilterContext
        /\ \A name \in LookupNames :
               /\ GetTable(restored.schema, name) = GetTable(schema, name)
               /\ GetSqlTableName(restored.schema, name) = GetSqlTableName(schema, name)
               /\ GetSqlColumnName(restored.schema, name, <<"K">>)
                      = GetSqlColumnName(schema, name, <<"K">>)

\* the two name mappings of the context
DaxToSql == schema.dax_to_sql_table

SqlToDax == schema.sql_to_dax_table

\* C27: after any sequence of add_table calls the alias -> physical and the
\* physical -> alias mappings are inverses of each other, and every alias of
\* the mapping is the effective DAX name of a table that is registered
C27_IndicesInverse ==
    /\ \A i \in DOMAIN DaxToSql :
           /\ DictHas(SqlToDax, DaxToSql[i].value)
           /\ DictGet(SqlToDax, DaxToSql[i].value) = DaxToSql[i].key
           /\ \E j \in DOMAIN schema.tables :
                  Lower(EffectiveDaxName(schema.tables[j].value)) = DaxToSql[i].key
    /\ \A i \in DOMAIN SqlToDax :
           /\ DictHas(DaxToSql, SqlToDax[i].value)
           /\ DictGet(DaxToSql, SqlToDax[i].value) = SqlToDax[i].key

\* the physical name of the table a name resolves to
PhysicalName(name) == (CHOOSE table \in GetTable(schema, name) : TRUE).name

\* C24: get_join_path asked with names that resolve to registered tables, by
\* alias or by physical name in any letter case, returns the path it returns
\* for the physical names of those tables
C24_JoinPathByAnyName ==
    (/\ joinResult.st = "return"
     /\ GetTable(schema, joinResult.from_table) # {}
     /\ GetTable(schema, joinResult.to_table) # {}) =>
        joinResult.path = GetJoinPath(relationships, PhysicalName(joinResult.from_table),
                                      PhysicalName(joinResult.to_table))

(***************************************************************************)
(* Sources of several lines handed to one lexer object: the positions of   *)
(* the tokens and of a LexerError.                                         *)
(***************************************************************************)
\* what is typed: tokens, line ends, and a comment and a string of two lines
LinePieces == { <<"1">>, <<" ">>, <<"\n">>, <<"\r", "\n">>, <<"$">>,
                <<"/", "*", "\n", "*", "/">>, <<"\"", "a", "\n", "\"">> }

LineNext ==
    \/ \E piece \in LinePieces : TypePiece(piece)
    \/ CreateLexer
    \/ CallTokenize

LineSpec == Init /\ [][LineNext]_vars

\* the offsets of the newline characters of s before offset
NewlinesBefore(s, offset) == {i \in 0..(offset - 1) : s[i + 1] = "\n"}

\* 1 + the number of newline characters before offset
LineOf(s, offset) == 1 + Cardinality(NewlinesBefore(s, offset))

\* 1 + the number of characters between the last newline before offset and offset
ColumnOf(s, offset) ==
    IF NewlinesBefore(s, offset) = {} THEN 1 + offset
    ELSE offset - (CHOOSE i \in NewlinesBefore(s, offset) :
                      \A j \in NewlinesBefore(s, offset) : j <= i)

\* the position p, a token or a LexerError, is exact in the source s
ExactPosition(s, p) ==
    /\ p.position \in 0..Len(s)
    /\ p.line = LineOf(s, p.position)
    /\ p.column = ColumnOf(s, p.position)

\* C25: every token tokenize returns starts at its offset of the source and
\* carries the line and the column of that offset, and so does the LexerError
\* of a character no pattern matches
C25_PositionsExact ==
    /\ lexOutcome.st = "return" =>
           \A i \in DOMAIN lexOutcome.tokens :
               /\ ExactPosition(lexer[1].source, lexOutcome.tokens[i])
               /\ Slice(lexer[1].source, lexOutcome.tokens[i].position,
                        lexOutcome.tokens[i].position + Len(lexOutcome.tokens[i].value))
                      = lexOutcome.tokens[i].value
    /\ lexOutcome.st = "raise" => ExactPosition(lexer[1].source, lexOutcome.exc)

(***************************************************************************)
(* One DaxParser object on which parse and parse_measure are called again. *)
(* A list is an object of the heap: a ParseResult holds the lists it was   *)
(* built with, and a later call changes it when it changes such a list.    *)
(***************************************************************************)
\* the most calls made on the parser object
MaxReuse == 2

\* the sources it is called with
ReuseSources == { <<"1">>, <<"(", "1">>, <<"$">>, <<"1", " ", "1">>,
                  <<"[", "m", "]", "=", "1">>, <<>> }

\* the reset of self.errors by list.clear(): the list object is kept
ResetErrorsInPlace(errors, heap) == errors

\* self.errors = []: the place of the list object self.errors is bound to
ResetErrors(errors, heap) == Len(heap) + 1

\* the heap after the list at place ref, new or not, holds content
Store(heap, ref, content) ==
    IF ref <= Len(heap) THEN [heap EXCEPT ![ref] = content] ELSE Append(heap, content)

\* a ParseResult as returned, with the places of its tokens and errors lists
Held(method, source, result, tokens, errors) ==
    [method |-> method, source |-> source, returned |-> result,
     tokens |-> tokens, errors |-> errors]

\* the objects after the LexerError branch: self.tokens is not assigned, and
\* the ParseResult gets two lists of its own, tokens=[] and errors=[str(e)]
AfterLexerError(objs, method, source, r, errors, heap) ==
    [heap |-> heap \o << <<>>, r.result.errors >>, tokens |-> objs.tokens,
     errors |-> errors, calls |-> objs.calls + 1,
     held |-> Append(objs.held,
                     Held(method, source, r.result, Len(heap) + 1, Len(heap) + 2))]

\* the objects after self.tokens = lexer.tokenize() and the parse: the
\* ParseResult, if one is returned, gets self.tokens and self.errors
AfterParse(objs, method, source, r, errors, heap) ==
    [heap |-> Append(heap, r.parser.tokens), tokens |-> Len(heap) + 1,
     errors |-> errors, calls |-> objs.calls + 1,
     held |-> IF r.st = "return"
              THEN Append(objs.held, Held(method, source, r.result, Len(heap) + 1, errors))
              ELSE objs.held]

\* the objects after a call that had the outcome r, self.errors reset to errors
AfterCall(objs, method, source, r, errors) ==
    IF r.st = "return" /\ r.raised = "LexerError"
    THEN AfterLexerError(objs, method, source, r, errors,
                         Store(objs.heap, errors, r.parser.errors))
    ELSE AfterParse(objs, method, source, r, errors,
                    Store(objs.heap, errors, r.parser.errors))

\* the call has the outcome r
Called(method, source, r) ==
    /\ parser' = r.parser
    /\ outcome' = CallOutcome(method, r)
    /\ input' = source
    /\ reuse' = AfterCall(reuse, method, source, r, ResetErrors(reuse.errors, reuse.heap))
    /\ UNCHANGED <<chain, sep, lexerVars, contextVars, serviceVars, joinsResult,
                   registryVars, library>>

\* parser.parse(source) on the parser object, called before or not
ParseAgain(source) ==
    /\ reuse.calls < MaxReuse
    /\ Called("parse", source, Parse(parser, source))

\* parser.parse_measure(source) on the parser object, called before or not
ParseMeasureAgain(source) ==
    /\ reuse.calls < MaxReuse
    /\ Called("parse_measure", source, ParseMeasure(parser, source))

ReuseNext ==
    \/ \E source \in ReuseSources : ParseAgain(source)
    \/ \E source \in ReuseSources : ParseMeasureAgain(source)

ReuseSpec == Init /\ [][ReuseNext]_vars

\* what a ParseResult returned earlier holds now
Current(h) ==
    [h.returned EXCEPT !.tokens = reuse.heap[h.tokens], !.errors = reuse.heap[h.errors]]

\* the outcome of the same call on a new DaxParser()
OnFreshInstance(h) ==
    IF h.method = "parse" THEN Parse(NewParser, h.source)
    ELSE ParseMeasure(NewParser, h.source)

\* C26: every call on a parser object returns the ParseResult the same call
\* returns on a new DaxParser(), whatever was parsed before, and no later
\* call alters the tokens or the errors of a ParseResult returned earlier
C26_NoStateBetweenCalls ==
    \A i \in DOMAIN reuse.held :
        /\ reuse.held[i].returned = OnFreshInstance(reuse.held[i]).result
        /\ Current(reuse.held[i]) = reuse.held[i].returned

\* a call that failed with a ParseError was followed by a call with another
\* source that returned other errors
C26_Witness ==
    /\ Len(reuse.held) = 2
    /\ reuse.held[1].source = <<"(", "1">>
    /\ reuse.held[1].returned.errors # <<>>
    /\ reuse.held[1].errors # reuse.held[2].errors
    /\ reuse.held[2].source = <<"1", " ", "1">>
    /\ reuse.held[2].returned.errors # reuse.held[1].returned.errors

(***************************************************************************)
(* patterns.py: get_pattern_library called by threads.  The interpreter    *)
(* may switch threads between any two steps of the function; a             *)
(* PatternLibrary is known by the number of its construction.              *)
(***************************************************************************)
\* the most calls a thread makes
MaxLibraryCalls == 2

\* if _default_library is None
CheckDefault(t) ==
    /\ library.threads[t].pc = "idle"
    /\ Len(library.threads[t].got) < MaxLibraryCalls
    /\ library' = [library EXCEPT !.threads[t].pc =
                       IF library.default = 0 THEN "construct" ELSE "return"]

\* PatternLibrary()
ConstructLibrary(t) ==
    /\ library.threads[t].pc = "construct"
    /\ library' = [library EXCEPT !.made = @ + 1,
                                  !.threads[t].instance = library.made + 1,
                                  !.threads[t].pc = "assign"]

\* _default_library = <the PatternLibrary made>
AssignDefault(t) ==
    /\ library.threads[t].pc = "assign"
    /\ library' = [library EXCEPT !.default = library.threads[t].instance,
                                  !.threads[t].pc = "return"]

\* return _default_library
ReturnDefault(t) ==
    /\ library.threads[t].pc = "return"
    /\ library' = [library EXCEPT !.threads[t].got = Append(@, library.default),
                                  !.threads[t].pc = "idle"]

LibraryNext ==
    /\ \E t \in Threads :
           \/ CheckDefault(t)
           \/ ConstructLibrary(t)
           \/ AssignDefault(t)
           \/ ReturnDefault(t)
    /\ UNCHANGED <<inputVars, parserVars, lexerVars, contextVars, serviceVars, joinsResult,
                   registryVars, reuse>>

LibrarySpec == Init /\ [][LibraryNext]_vars

\* the PatternLibrary instances get_pattern_library has returned
LibrariesReturned == UNION {Range(library.threads[t].got) : t \in Threads}

\* C28: get_pattern_library returns the same PatternLibrary instance on every
\* call, the first calls of several threads at the same time included
C28_OneLibrary == Cardinality(LibrariesReturned) <= 1

(***************************************************************************)
(* FilterContext: the removal of a whole table and of one column, each     *)
(* followed by an addition.                                                *)
(***************************************************************************)
RECURSIVE AfterCalls(_, _)
\* the filter context fc after the add_filter and remove_filter calls
AfterCalls(calls, fc) ==
    IF calls = <<>> THEN fc
    ELSE AfterCalls(Tail(calls),
                    IF Head(calls).op = "add"
                    THEN AddFilterTo(fc, Head(calls).table, Head(calls).column,
                                     Head(calls).condition)
                    ELSE RemoveFilterFrom(fc, Head(calls).table, Head(calls).column))

\* the last two calls were remove_filter(T) and add_filter(T, c, x)
TableRemovedThenAdded ==
    /\ Len(filterCalls) >= 2
    /\ filterCalls[Len(filterCalls) - 1].op = "remove"
    /\ filterCalls[Len(filterCalls) - 1].column = <<>>
    /\ filterCalls[Len(filterCalls)].op = "add"
    /\ filterCalls[Len(filterCalls)].table = filterCalls[Len(filterCalls) - 1].table

\* the calls made, with remove_filter(T, c) in the place of remove_filter(T)
WithColumnRemoved ==
    [filterCalls EXCEPT ![Len(filterCalls) - 1].column =
                            filterCalls[Len(filterCalls)].column]

\* C30: after remove_filter(T); add_filter(T, c, x) the effective filters are
\* those that remove_filter(T, c); add_filter(T, c, x) gives on the same
\* filter context
C30_RemovalsAlike ==
    TableRemovedThenAdded =>
        GetEffectiveFilters(filterContext)
            = GetEffectiveFilters(AfterCalls(WithColumnRemoved, NewFilterContext))

====
